---- MODULE Spec2Model ----
(***************************************************************************)
(* Model of the ESP8266 retro console (src/retroconsole8266.ino): the      *)
(* input system, the sound system, the game engine's state machine and     *)
(* the main loop.  One step of the model is one pass of loop():            *)
(* input.update, sound.update, engine.update, engine.draw, in that order;  *)
(* the calls it makes are recorded, in order, in the variable calls.       *)
(*                                                                         *)
(* In this specification a game module is modelled by what the engine      *)
(* sees of it: its private memory is written by its init and its update,   *)
(* an update may raise the score, request the click/score/collision cues   *)
(* and set gameOver; its draw only reads.  millis() is sampled once per    *)
(* tick (at the poll), and delay() advances it.                            *)
(*                                                                         *)
(* Left out: the pin numbers, SoundSystem::noteEndTime (sound.update does  *)
(* nothing with it), GameEngine::highScore and GameEngine::difficulty      *)
(* (neither is ever read), and what is drawn on the display.              *)
(***************************************************************************)
EXTENDS Integers, Sequences, FiniteSets, TLC

\* ------------------------------------------------------------------ bounds
MaxTime == 1001      \* millis() never exceeds this in a run
MaxPresses == 2      \* button presses (released to active) in a run
ScenarioPresses == 4 \* the same, for the DOWN/SELECT player of SpecScenario
MaxFrames == 2       \* updates of one module in one session

\* The time a tick may take: none (same millisecond) or a long frame.
DtSet == {0, 600, 601}

\* --------------------------------------------------------------- constants
LONG_PRESS_MS == 600
GAME_OVER_DELAY == 1000

UP == 0
DOWN == 1
LEFT == 2
RIGHT == 3
SELECT == 4
Buttons == {UP, DOWN, LEFT, RIGHT, SELECT}

GAME_FLAPPY == 0
GAME_SNAKE == 1
GAME_BRICK == 2
GAME_PONG == 3
GAME_KNIFE == 4
GAME_MARIO == 5
GAME_STACK == 6
GAME_DOODLE == 7
GAME_DODGE == 8
GAME_TUNNEL == 9
GAME_TETRIS == 10
GAME_HELI == 11
GAME_COUNT == 12
GameType == 0 .. (GAME_COUNT - 1)

gameTitles == << "Flappy Bird", "Snake", "Brick Breaker", "Pong",
                 "Knife Thrower", "Mario Runner", "Stack Builder", "Doodle Jump",
                 "Dodge Pixels", "Tunnel Run", "Tetris", "Helicopter" >>

\* The game namespaces.
Modules == { "Flappy", "Snake", "Pong", "Brick", "Knife", "Dodge",
             "Mario", "Heli", "Tunnel", "Doodle", "Stack", "Tetris" }
NoModule == "none"

\* SFX presets: frequency and duration of each.
SfxClickTone == << 1000, 20 >>
SfxSelectTone == << 1500, 50 >>
SfxScoreTone == << 2000, 100 >>
SfxCollisionTone == << 150, 300 >>
SfxGameOverTone == << 100, 1000 >>

VARIABLES
    now,            \* millis()
    pins,           \* the buttons whose pin read LOW at the last poll
    buttons,        \* InputSystem::buttons
    muted,          \* SoundSystem::muted
    tonePlaying,    \* the buzzer: a tone was started and not stopped
    currentState,   \* GameEngine::currentState
    selectedGame,   \* GameEngine::selectedGame
    menuIndex,      \* GameEngine::menuIndex
    score,          \* GameEngine::score
    mem,            \* the private memory of each game module
    calls,          \* the calls made so far in the current tick
    sessions,       \* number of startGame calls so far
    presses,        \* number of button presses so far
    halted,         \* setup() never returned: display.begin() failed
    gameVars        \* the variables of the one game namespace modelled in
                    \* full (SpecFlappy and the like); unused elsewhere

vars == << now, pins, buttons, muted, tonePlaying, currentState, selectedGame,
           menuIndex, score, mem, calls, sessions, presses, halted,
           gameVars >>


\* ------------------------------------------------------------ input system
\* InputSystem::init: every button released, nothing recorded.
InputInit ==
    [ i \in Buttons |->
        [ pressed |-> FALSE, justPressed |-> FALSE, pressTime |-> 0,
          longPressHandled |-> FALSE ] ]

\* A faulty UpdateButton: the edge flag is not cleared at the head of the poll.
UpdateButton_KeepEdge(b, reading, t) ==
    IF reading /\ ~b.pressed
    THEN [ b EXCEPT !.pressed = TRUE, !.justPressed = TRUE,
                    !.pressTime = t, !.longPressHandled = FALSE ]
    ELSE IF ~reading /\ b.pressed
         THEN [ b EXCEPT !.pressed = FALSE ]
         ELSE b

\* A faulty UpdateButton: the long-press-consumed flag is cleared at the head
\* of the poll, as the edge flag is.
UpdateButton_ClearsHandled(b, reading, t) ==
    LET b1 == [ b EXCEPT !.justPressed = FALSE, !.longPressHandled = FALSE ]
    IN  IF reading /\ ~b1.pressed
        THEN [ b1 EXCEPT !.pressed = TRUE, !.justPressed = TRUE,
                         !.pressTime = t ]
        ELSE IF ~reading /\ b1.pressed
             THEN [ b1 EXCEPT !.pressed = FALSE ]
             ELSE b1

\* The body of the loop of InputSystem::update for one button; reading is
\* digitalRead(pin) == LOW and t is millis().
UpdateButton(b, reading, t) ==
    LET b1 == [ b EXCEPT !.justPressed = FALSE ]
    IN  IF reading /\ ~b1.pressed
        THEN [ b1 EXCEPT !.pressed = TRUE, !.justPressed = TRUE,
                         !.pressTime = t, !.longPressHandled = FALSE ]
        ELSE IF ~reading /\ b1.pressed
             THEN [ b1 EXCEPT !.pressed = FALSE ]
             ELSE b1

\* InputSystem::update: held is the set of buttons whose pin reads LOW.
InputUpdate(bs, held, t) ==
    [ i \in Buttons |-> UpdateButton(bs[i], i \in held, t) ]

isPressed(bs, id) == bs[id].pressed
isJustPressed(bs, id) == bs[id].justPressed

\* A faulty isLongPressed: fires at the threshold instead of past it.
isLongPressed_AtThreshold(bs, id, t) ==
    /\ bs[id].pressed
    /\ ~bs[id].longPressHandled
    /\ t - bs[id].pressTime >= LONG_PRESS_MS

\* InputSystem::isLongPressed: the value it returns at time t ...
isLongPressed(bs, id, t) ==
    /\ bs[id].pressed
    /\ ~bs[id].longPressHandled
    /\ t - bs[id].pressTime > LONG_PRESS_MS

\* ... and the buttons it leaves behind (it marks the press as handled).
LongPressMark(bs, id, t) ==
    IF isLongPressed(bs, id, t)
    THEN [ bs EXCEPT ![id].longPressHandled = TRUE ]
    ELSE bs

\* ------------------------------------------------------------ sound system
\* The handlers below run on a record c of the fields they read and write:
\*   now, pins, buttons, muted, tonePlaying, currentState, selectedGame,
\*   menuIndex, score, mem, calls, sessions, presses, gameVars.
\* Log records a call (or a result reported to the caller) in calls.
Log(c, op, arg) == [ c EXCEPT !.calls = Append(@, << op, arg >>) ]

\* A faulty playTone: the mute flag is not consulted.
playTone_IgnoreMute(c, tn) ==
    [ Log(Log(c, "playTone", tn[1]), "tone", tn[1]) EXCEPT !.tonePlaying = TRUE ]

\* SoundSystem::playTone.
playTone(c, tn) ==
    LET c1 == Log(c, "playTone", tn[1])
    IN  IF c1.muted
        THEN c1
        ELSE [ Log(c1, "tone", tn[1]) EXCEPT !.tonePlaying = TRUE ]

\* SoundSystem::stop.
stop(c) == [ Log(c, "noTone", 0) EXCEPT !.tonePlaying = FALSE ]

\* SoundSystem::toggleMute.
toggleMute(c) ==
    LET c1 == [ Log(c, "toggleMute", 0) EXCEPT !.muted = ~c.muted ]
    IN  IF c1.muted THEN stop(c1) ELSE c1

sfxClick(c) == playTone(c, SfxClickTone)
sfxSelect(c) == playTone(c, SfxSelectTone)
sfxScore(c) == playTone(c, SfxScoreTone)
sfxCollision(c) == playTone(c, SfxCollisionTone)
sfxGameOver(c) == playTone(c, SfxGameOverTone)

\* ------------------------------------------------------------ game modules
\* A module's memory: zeroed at boot, reset by init, advanced by update.
MemBoot == [ inited |-> FALSE, frames |-> 0 ]
MemStart == [ inited |-> TRUE, frames |-> 0 ]

\* <Module>::init.
ModuleInit(c, m) ==
    IF m = NoModule THEN c
    ELSE [ Log(c, "init", m) EXCEPT !.mem[m] = MemStart ]

\* What one update call may do besides advancing the module's memory:
\* raise the score, request cues, set gameOver.
Outcomes ==
    { [ dscore |-> 0, click |-> FALSE, over |-> FALSE ],
      [ dscore |-> 0, click |-> TRUE,  over |-> FALSE ],
      [ dscore |-> 1, click |-> FALSE, over |-> FALSE ],
      [ dscore |-> 0, click |-> FALSE, over |-> TRUE ],
      [ dscore |-> 1, click |-> FALSE, over |-> TRUE ] }

\* <Module>::update(score, gameOver) with outcome o; gameOver is o.over.
ModuleUpdate(c, m, o) ==
    IF m = NoModule THEN c
    ELSE
      LET c1 == [ Log(c, "update", m) EXCEPT !.mem[m].frames = @ + 1 ]
          c2 == IF o.click THEN sfxClick(c1) ELSE c1
          c3 == IF o.over THEN Log(sfxCollision(c2), "gameOver", m) ELSE c2
      IN  IF o.dscore > 0
          THEN sfxScore([ c3 EXCEPT !.score = @ + o.dscore ])
          ELSE c3

\* A faulty module draw: drawing advances the module's memory.
ModuleDraw_Animates(c, m) ==
    IF m = NoModule THEN c
    ELSE [ Log(c, "draw", m) EXCEPT !.mem[m].frames = @ + 1 ]

\* <Module>::draw.
ModuleDraw(c, m) ==
    IF m = NoModule THEN c ELSE Log(c, "draw", m)

\* ------------------------------------------------------------- game engine
STATE_MENU == "MENU"
STATE_PLAYING == "PLAYING"
STATE_PAUSED == "PAUSED"
GameState == { STATE_MENU, STATE_PLAYING, STATE_PAUSED }

\* A faulty dispatch: the cases taken in the order the switch lists them
\* instead of by the value of their label.
SwitchByPosition(game) ==
    CASE game = 0 -> "Flappy"
      [] game = 1 -> "Snake"
      [] game = 2 -> "Pong"
      [] game = 3 -> "Brick"
      [] game = 4 -> "Knife"
      [] game = 5 -> "Dodge"
      [] game = 6 -> "Mario"
      [] game = 7 -> "Heli"
      [] game = 8 -> "Tunnel"
      [] game = 9 -> "Doodle"
      [] game = 10 -> "Stack"
      [] game = 11 -> "Tetris"
      [] OTHER -> NoModule

\* A faulty startGame: its switch dispatches by position.
StartSwitch_ByPosition(game) == SwitchByPosition(game)

\* The switch of GameEngine::startGame.
StartSwitch(game) ==
    CASE game = GAME_FLAPPY -> "Flappy"
      [] game = GAME_SNAKE  -> "Snake"
      [] game = GAME_PONG   -> "Pong"
      [] game = GAME_BRICK  -> "Brick"
      [] game = GAME_KNIFE  -> "Knife"
      [] game = GAME_DODGE  -> "Dodge"
      [] game = GAME_MARIO  -> "Mario"
      [] game = GAME_HELI   -> "Heli"
      [] game = GAME_TUNNEL -> "Tunnel"
      [] game = GAME_DOODLE -> "Doodle"
      [] game = GAME_STACK  -> "Stack"
      [] game = GAME_TETRIS -> "Tetris"
      [] OTHER -> NoModule

\* The switch of GameEngine::updateGame.
UpdateSwitch(game) ==
    CASE game = GAME_FLAPPY -> "Flappy"
      [] game = GAME_SNAKE  -> "Snake"
      [] game = GAME_PONG   -> "Pong"
      [] game = GAME_BRICK  -> "Brick"
      [] game = GAME_KNIFE  -> "Knife"
      [] game = GAME_DODGE  -> "Dodge"
      [] game = GAME_MARIO  -> "Mario"
      [] game = GAME_HELI   -> "Heli"
      [] game = GAME_TUNNEL -> "Tunnel"
      [] game = GAME_DOODLE -> "Doodle"
      [] game = GAME_STACK  -> "Stack"
      [] game = GAME_TETRIS -> "Tetris"
      [] OTHER -> NoModule

\* A faulty drawGame: its switch dispatches by position.
DrawSwitch_ByPosition(game) == SwitchByPosition(game)

\* The switch of GameEngine::drawGame.
DrawSwitch(game) ==
    CASE game = GAME_FLAPPY -> "Flappy"
      [] game = GAME_SNAKE  -> "Snake"
      [] game = GAME_PONG   -> "Pong"
      [] game = GAME_BRICK  -> "Brick"
      [] game = GAME_KNIFE  -> "Knife"
      [] game = GAME_DODGE  -> "Dodge"
      [] game = GAME_MARIO  -> "Mario"
      [] game = GAME_HELI   -> "Heli"
      [] game = GAME_TUNNEL -> "Tunnel"
      [] game = GAME_DOODLE -> "Doodle"
      [] game = GAME_STACK  -> "Stack"
      [] game = GAME_TETRIS -> "Tetris"
      [] OTHER -> NoModule

\* A faulty startGame: a new session starts with the sound on.
startGame_Unmutes(c, game) ==
    ModuleInit([ Log(c, "startGame", game)
                   EXCEPT !.currentState = STATE_PLAYING, !.score = 0,
                          !.sessions = @ + 1, !.muted = FALSE ],
               StartSwitch(game))

\* GameEngine::startGame.
startGame(c, game) ==
    ModuleInit([ Log(c, "startGame", game)
                   EXCEPT !.currentState = STATE_PLAYING, !.score = 0,
                          !.sessions = @ + 1 ],
               StartSwitch(game))

\* A faulty cursor move: UP at the first entry wraps one past the last.
MenuUp_PastEnd(idx) == IF idx - 1 < 0 THEN GAME_COUNT ELSE idx - 1

\* The cursor moves of GameEngine::updateMenu.
MenuUp(idx) == IF idx - 1 < 0 THEN GAME_COUNT - 1 ELSE idx - 1
MenuDown(idx) == IF idx + 1 >= GAME_COUNT THEN 0 ELSE idx + 1

\* GameEngine::updateMenu.
updateMenu(c) ==
    LET c0 == Log(c, "updateMenu", 0)
        c1 == IF isJustPressed(c0.buttons, UP)
              THEN sfxClick([ c0 EXCEPT !.menuIndex = MenuUp(@) ])
              ELSE c0
        c2 == IF isJustPressed(c1.buttons, DOWN)
              THEN sfxClick([ c1 EXCEPT !.menuIndex = MenuDown(@) ])
              ELSE c1
        c3 == IF isJustPressed(c2.buttons, SELECT)
              THEN LET s == sfxSelect(c2)
                   IN  startGame([ s EXCEPT !.selectedGame = s.menuIndex ],
                                 s.menuIndex)
              ELSE c2
    IN  IF isJustPressed(c3.buttons, LEFT) \/ isJustPressed(c3.buttons, RIGHT)
        THEN sfxClick(toggleMute(c3))
        ELSE c3

\* A faulty updatePause: the exit to the menu does not stop the sound.
updatePause_NoStop(c) ==
    LET c0 == Log(c, "updatePause", 0)
        c1 == IF isJustPressed(c0.buttons, SELECT)
              THEN sfxSelect([ c0 EXCEPT !.currentState = STATE_PLAYING ])
              ELSE c0
        c2 == IF isJustPressed(c1.buttons, LEFT)
              THEN sfxSelect([ c1 EXCEPT !.currentState = STATE_MENU ])
              ELSE c1
    IN  IF isJustPressed(c2.buttons, RIGHT)
        THEN sfxClick(toggleMute(c2))
        ELSE c2

\* A faulty updatePause: RIGHT, not LEFT, exits to the menu.
updatePause_ExitOnRight(c) ==
    LET c0 == Log(c, "updatePause", 0)
        c1 == IF isJustPressed(c0.buttons, SELECT)
              THEN sfxSelect([ c0 EXCEPT !.currentState = STATE_PLAYING ])
              ELSE c0
        c2 == IF isJustPressed(c1.buttons, RIGHT)
              THEN sfxSelect(stop([ c1 EXCEPT !.currentState = STATE_MENU ]))
              ELSE c1
    IN  IF isJustPressed(c2.buttons, LEFT)
        THEN sfxClick(toggleMute(c2))
        ELSE c2

\* GameEngine::updatePause.
updatePause(c) ==
    LET c0 == Log(c, "updatePause", 0)
        c1 == IF isJustPressed(c0.buttons, SELECT)
              THEN sfxSelect([ c0 EXCEPT !.currentState = STATE_PLAYING ])
              ELSE c0
        c2 == IF isJustPressed(c1.buttons, LEFT)
              THEN sfxSelect(stop([ c1 EXCEPT !.currentState = STATE_MENU ]))
              ELSE c1
    IN  IF isJustPressed(c2.buttons, RIGHT)
        THEN sfxClick(toggleMute(c2))
        ELSE c2

\* A faulty updateGame: on game over the cue and the delay, but the mode
\* is left at Playing.
updateGame_StaysPlaying(c, o) ==
    LET c0 == Log(c, "updateGame", 0)
        c1 == ModuleUpdate(c0, UpdateSwitch(c0.selectedGame), o)
    IN  IF o.over
        THEN LET c2 == sfxGameOver(c1)
             IN  [ Log(c2, "delay", GAME_OVER_DELAY)
                     EXCEPT !.now = @ + GAME_OVER_DELAY ]
        ELSE c1

\* A faulty updateGame: the game-over transition clears the score.
updateGame_ClearsScore(c, o) ==
    LET c0 == Log(c, "updateGame", 0)
        c1 == ModuleUpdate(c0, UpdateSwitch(c0.selectedGame), o)
    IN  IF o.over
        THEN LET c2 == sfxGameOver(c1)
             IN  [ Log(c2, "delay", GAME_OVER_DELAY)
                     EXCEPT !.currentState = STATE_MENU,
                            !.score = 0,
                            !.now = @ + GAME_OVER_DELAY ]
        ELSE c1

\* GameEngine::updateGame; o is what the module's update does this tick.
updateGame(c, o) ==
    LET c0 == Log(c, "updateGame", 0)
        c1 == ModuleUpdate(c0, UpdateSwitch(c0.selectedGame), o)
    IN  IF o.over
        THEN LET c2 == sfxGameOver(c1)
             IN  [ Log(c2, "delay", GAME_OVER_DELAY)
                     EXCEPT !.currentState = STATE_MENU,
                            !.now = @ + GAME_OVER_DELAY ]
        ELSE c1

\* The global pause toggle at the head of GameEngine::update, taken when
\* isLongPressed(SELECT) returns true (and marks the press as handled).
pauseToggle(c) ==
    sfxSelect([ Log(c, "isLongPressed", 1)
                  EXCEPT !.currentState = STATE_PAUSED,
                         !.buttons = LongPressMark(@, SELECT, c.now) ])

\* GameEngine::drawGame.
drawGame(c) == ModuleDraw(c, DrawSwitch(c.selectedGame))

\* GameEngine::draw.
draw(c) ==
    LET c0 == Log(c, "engine.draw", 0)
        c1 == CASE c0.currentState = STATE_MENU -> Log(c0, "drawMenu", 0)
                [] c0.currentState = STATE_PLAYING ->
                       Log(drawGame(c0), "drawHUD", 0)
                [] c0.currentState = STATE_PAUSED ->
                       Log(drawGame(c0), "drawPause", 0)
    IN  Log(c1, "display", 0)

\* A faulty update: the pause toggle is tested after the mode's handler ran.
update_GameBeforePause(c, o) ==
    LET c0 == Log(c, "engine.update", 0)
        c1 == CASE c0.currentState = STATE_MENU -> updateMenu(c0)
                [] c0.currentState = STATE_PLAYING ->
                       updateGame(Log(c0, "isLongPressed", 0), o)
                [] c0.currentState = STATE_PAUSED -> updatePause(c0)
    IN  IF c1.currentState = STATE_PLAYING
           /\ isLongPressed(c1.buttons, SELECT, c1.now)
        THEN pauseToggle(c1)
        ELSE c1

\* A faulty update: a game started or resumed in a pass is updated in that
\* same pass.
update_PlaysAtOnce(c, o) ==
    LET c0 == Log(c, "engine.update", 0)
    IN  IF c0.currentState = STATE_PLAYING
           /\ isLongPressed(c0.buttons, SELECT, c0.now)
        THEN pauseToggle(c0)
        ELSE LET c1 == CASE c0.currentState = STATE_MENU -> updateMenu(c0)
                         [] c0.currentState = STATE_PAUSED -> updatePause(c0)
                         [] OTHER -> c0
             IN  IF c1.currentState = STATE_PLAYING
                 THEN updateGame(Log(c1, "isLongPressed", 0), o)
                 ELSE c1

\* GameEngine::update; o is what the active module's update does if called.
update(c, o) ==
    LET c0 == Log(c, "engine.update", 0)
    IN  IF c0.currentState = STATE_PLAYING
           /\ isLongPressed(c0.buttons, SELECT, c0.now)
        THEN pauseToggle(c0)
        ELSE CASE c0.currentState = STATE_MENU -> updateMenu(c0)
               [] c0.currentState = STATE_PLAYING ->
                      updateGame(Log(c0, "isLongPressed", 0), o)
               [] c0.currentState = STATE_PAUSED -> updatePause(c0)

\* The buttons a poll with reading held finds newly pressed.
NewlyPressed(bs, held) == { i \in held : ~bs[i].pressed }

\* input.update() and sound.update() (which does nothing) at the head of
\* loop(): dt is the time since the previous pass, held the pins read LOW.
inputUpdate(c, dt, held) ==
    LET c0 == [ c EXCEPT !.now = @ + dt,
                         !.pins = held,
                         !.buttons = InputUpdate(@, held, c.now + dt),
                         !.presses = @ + Cardinality(NewlyPressed(c.buttons, held)),
                         !.calls = << << "input.update", 0 >> >> ]
    IN  Log(c0, "sound.update", 0)

\* A faulty loop: the frame is drawn before the engine is updated.
loop_DrawFirst(c, dt, held, o) == update(draw(inputUpdate(c, dt, held)), o)

\* loop().
loop(c, dt, held, o) == draw(update(inputUpdate(c, dt, held), o))

\* ----------------------------------------------------------- state machine
Ctx ==
    [ now |-> now, pins |-> pins, buttons |-> buttons, muted |-> muted,
      tonePlaying |-> tonePlaying, currentState |-> currentState,
      selectedGame |-> selectedGame, menuIndex |-> menuIndex,
      score |-> score, mem |-> mem, calls |-> calls, sessions |-> sessions,
      presses |-> presses, gameVars |-> gameVars ]

\* The state the pass leaves behind.
Becomes(r) ==
    \E c \in { r } :
    /\ now' = c.now
    /\ pins' = c.pins
    /\ buttons' = c.buttons
    /\ muted' = c.muted
    /\ tonePlaying' = c.tonePlaying
    /\ currentState' = c.currentState
    /\ selectedGame' = c.selectedGame
    /\ menuIndex' = c.menuIndex
    /\ score' = c.score
    /\ mem' = c.mem
    /\ calls' = c.calls
    /\ sessions' = c.sessions
    /\ presses' = c.presses
    /\ gameVars' = c.gameVars
    /\ UNCHANGED halted

\* A faulty start: loop() runs although GameEngine::init never returned.
Running_AfterFailure == TRUE

\* setup() returned, so loop() runs: GameEngine::init did not stop in its
\* for(;;) after a failed display.begin().
Running == ~halted

\* No game namespace is modelled in full.
NoGame == [ kind |-> NoModule ]

\* The state after setup(): field initialisers and the init calls; when
\* display.begin() fails, the state in which setup() stays forever.
Init ==
    /\ now = 0
    /\ pins = { }
    /\ buttons = InputInit
    /\ muted = FALSE
    /\ tonePlaying = FALSE
    /\ currentState = STATE_MENU
    /\ selectedGame = GAME_FLAPPY
    /\ menuIndex = 0
    /\ score = 0
    /\ mem = [ m \in Modules |-> MemBoot ]
    /\ calls = << >>
    /\ sessions = 0
    /\ presses = 0
    /\ halted \in BOOLEAN
    /\ gameVars = NoGame

\* The pin readings a poll may see: any set of buttons.
Readings == SUBSET Buttons

\* An outcome for the passes that call no module update.
Idle == [ dscore |-> 0, click |-> FALSE, over |-> FALSE ]

\* The poll with dt, held stays within the bounds of the model.
PollWithinBounds(dt, held, maxPresses) ==
    /\ now + dt <= MaxTime
    /\ presses + Cardinality(NewlyPressed(buttons, held)) <= maxPresses

\* The long press of SELECT is raised in the pass that polls with dt, held.
LongPressRaised(dt, held) ==
    /\ currentState = STATE_PLAYING
    /\ isLongPressed(InputUpdate(buttons, held, now + dt), SELECT, now + dt)

\* A pass of loop() in the menu, the pins reading one of rs.
MenuPass(rs, maxPresses) ==
    /\ Running
    /\ currentState = STATE_MENU
    /\ \E dt \in DtSet, held \in rs :
         /\ PollWithinBounds(dt, held, maxPresses)
         /\ Becomes(loop(Ctx, dt, held, Idle))

\* A pass of loop() while playing in which the long press pauses the game.
PauseTogglePass(rs, maxPresses) ==
    /\ Running
    /\ currentState = STATE_PLAYING
    /\ \E dt \in DtSet, held \in rs :
         /\ PollWithinBounds(dt, held, maxPresses)
         /\ LongPressRaised(dt, held)
         /\ Becomes(loop(Ctx, dt, held, Idle))

\* A pass of loop() while playing that updates the active game.
GamePass(rs, maxPresses) ==
    /\ Running
    /\ currentState = STATE_PLAYING
    /\ mem[UpdateSwitch(selectedGame)].frames < MaxFrames
    /\ \E dt \in DtSet, held \in rs, o \in Outcomes :
         /\ PollWithinBounds(dt, held, maxPresses)
         /\ o.over => now + dt + GAME_OVER_DELAY <= MaxTime
         /\ ~LongPressRaised(dt, held)
         /\ Becomes(loop(Ctx, dt, held, o))

\* A pass of loop() while paused.
PausePass(rs, maxPresses) ==
    /\ Running
    /\ currentState = STATE_PAUSED
    /\ \E dt \in DtSet, held \in rs :
         /\ PollWithinBounds(dt, held, maxPresses)
         /\ Becomes(loop(Ctx, dt, held, Idle))

TickMenu == MenuPass(Readings, MaxPresses)
TickPauseToggle == PauseTogglePass(Readings, MaxPresses)
TickGame == GamePass(Readings, MaxPresses)
TickPause == PausePass(Readings, MaxPresses)

Next ==
    \/ TickMenu
    \/ TickPauseToggle
    \/ TickGame
    \/ TickPause

Spec == Init /\ [][Next]_vars

\* The same console with a player who only uses DOWN and SELECT.
ScenarioReadings == SUBSET { DOWN, SELECT }

ScenarioMenu == MenuPass(ScenarioReadings, ScenarioPresses)
ScenarioPauseToggle == PauseTogglePass(ScenarioReadings, ScenarioPresses)
ScenarioGame == GamePass(ScenarioReadings, ScenarioPresses)
ScenarioPause == PausePass(ScenarioReadings, ScenarioPresses)

NextScenario ==
    \/ ScenarioMenu
    \/ ScenarioPauseToggle
    \/ ScenarioGame
    \/ ScenarioPause

SpecScenario == Init /\ [][NextScenario]_vars

\* ------------------------------------------------- game sessions in full
\* The state just after startGame(gid) was called from the menu with the
\* cursor on entry gid, the namespace of that game holding g.
SessionStart(gid, g) ==
    startGame([ now |-> 0, pins |-> { }, buttons |-> InputInit,
                muted |-> FALSE, tonePlaying |-> FALSE,
                currentState |-> STATE_MENU, selectedGame |-> gid,
                menuIndex |-> gid, score |-> 0,
                mem |-> [ m \in Modules |-> MemBoot ], calls |-> << >>,
                sessions |-> 0, presses |-> 0, gameVars |-> g ],
              gid)

\* The state after setup(), the game namespaces holding g.
BootWith(g) ==
    [ now |-> 0, pins |-> { }, buttons |-> InputInit,
      muted |-> FALSE, tonePlaying |-> FALSE,
      currentState |-> STATE_MENU, selectedGame |-> GAME_FLAPPY,
      menuIndex |-> 0, score |-> 0,
      mem |-> [ m \in Modules |-> MemBoot ], calls |-> << >>,
      sessions |-> 0, presses |-> 0, gameVars |-> g ]

\* The console is in state r, running.
StartsAs(r) ==
    /\ now = r.now
    /\ pins = r.pins
    /\ buttons = r.buttons
    /\ muted = r.muted
    /\ tonePlaying = r.tonePlaying
    /\ currentState = r.currentState
    /\ selectedGame = r.selectedGame
    /\ menuIndex = r.menuIndex
    /\ score = r.score
    /\ mem = r.mem
    /\ calls = r.calls
    /\ sessions = r.sessions
    /\ presses = r.presses
    /\ gameVars = r.gameVars
    /\ halted = FALSE

\* gameOver = true in a module's update.
SetGameOver(c, m) == [ Log(c, "gameOver", m) EXCEPT !.gameVars.over = TRUE ]

\* score++ in a module's update.
ScoreUp(c) == Log([ c EXCEPT !.score = @ + 1 ], "score", c.score + 1)

\* ------------------------------------------------------------ Flappy Bird
\* Lengths are kept in the units that make them integers: birdY and birdVy
\* in quarter pixels, the x of a pipe in half pixels.
FlappyTicks == 73    \* updates of a Flappy session in a run

\* Flappy::init (ticks and over are the session's bookkeeping).
FlappyInit ==
    [ kind |-> "Flappy", ticks |-> 0, over |-> FALSE,
      birdY |-> 128, birdVy |-> 0,
      pipes |-> << [ x |-> 256, gapY |-> 32, passed |-> FALSE ],
                   [ x |-> 404, gapY |-> 32, passed |-> FALSE ] >> ]

\* A faulty pipe loop: a pipe that is reset keeps its passed flag.
FlappyPipe_KeepsPassed(c, i, rnd) ==
    LET p0 == c.gameVars.pipes[i]
        p1 == IF p0.x - 3 < -20
              THEN [ x |-> 256, gapY |-> rnd, passed |-> p0.passed ]
              ELSE [ p0 EXCEPT !.x = p0.x - 3 ]
        scored == ~p1.passed /\ p1.x < 40
        c2 == IF scored THEN sfxScore(ScoreUp(c)) ELSE c
    IN  [ c2 EXCEPT !.gameVars.pipes[i] =
                      IF scored THEN [ p1 EXCEPT !.passed = TRUE ] ELSE p1 ]

\* One round of the pipe loop of Flappy::update; rnd is what random() gives.
FlappyPipe(c, i, rnd) ==
    LET p0 == c.gameVars.pipes[i]
        p1 == IF p0.x - 3 < -20
              THEN [ x |-> 256, gapY |-> rnd, passed |-> FALSE ]
              ELSE [ p0 EXCEPT !.x = p0.x - 3 ]
        y == c.gameVars.birdY
        hit == /\ p1.x < 48 /\ p1.x + 20 > 40
               /\ y < 4 * p1.gapY \/ y + 16 > 4 * p1.gapY + 96
        c1 == IF hit THEN SetGameOver(sfxCollision(c), "Flappy") ELSE c
        scored == ~p1.passed /\ p1.x < 40
        c2 == IF scored THEN sfxScore(ScoreUp(c1)) ELSE c1
    IN  [ c2 EXCEPT !.gameVars.pipes[i] =
                      IF scored THEN [ p1 EXCEPT !.passed = TRUE ] ELSE p1 ]

\* Flappy::update; jump is isJustPressed(SELECT) || isJustPressed(UP).
FlappyUpdate(c, jump, rnd) ==
    LET vy == c.gameVars.birdVy + 1
        y == c.gameVars.birdY + vy
        c1 == [ Log(c, "update", "Flappy")
                  EXCEPT !.gameVars.birdVy = vy, !.gameVars.birdY = y,
                         !.gameVars.ticks = @ + 1 ]
        c2 == IF jump THEN sfxClick([ c1 EXCEPT !.gameVars.birdVy = -10 ])
              ELSE c1
        c3 == IF y < 0 \/ y > 224
              THEN SetGameOver(sfxCollision(c2), "Flappy")
              ELSE c2
    IN  FlappyPipe(FlappyPipe(c3, 1, rnd), 2, rnd)

\* What random(10, 30) may give when a pipe is reset in the coming update.
FlappyGaps ==
    IF \E i \in 1 .. 2 : gameVars.pipes[i].x - 3 < -20 THEN 10 .. 29 ELSE { 10 }

\* A Playing tick's call of Flappy::update.
FlappyTick ==
    /\ gameVars.kind = "Flappy"
    /\ ~gameVars.over
    /\ gameVars.ticks < FlappyTicks
    /\ \E jump \in BOOLEAN, rnd \in FlappyGaps :
         Becomes(FlappyUpdate([ Ctx EXCEPT !.calls = << >> ], jump, rnd))

InitFlappy == StartsAs(SessionStart(GAME_FLAPPY, FlappyInit))
NextFlappy == FlappyTick
SpecFlappy == InitFlappy /\ [][NextFlappy]_vars

\* A session flown by rule, to follow the pipes round: FlappyGlideTicks
\* updates, a jump in each update that finds the bird more than 14 pixels
\* under the top of the gap of the pipe ahead.
FlappyGlideTicks == 167

\* The pipe ahead of the bird: the one not yet wholly behind BIRD_X.
FlappyAhead(g) ==
    LET front == { i \in 1 .. 2 : g.pipes[i].x + 20 > 40 }
    IN  CHOOSE i \in front : \A j \in front : g.pipes[i].x <= g.pipes[j].x

FlappyGlideJump(g) == g.birdY > 4 * g.pipes[FlappyAhead(g)].gapY + 56

FlappyGlide ==
    /\ gameVars.kind = "Flappy"
    /\ ~gameVars.over
    /\ gameVars.ticks < FlappyGlideTicks
    /\ \E rnd \in FlappyGaps :
         Becomes(FlappyUpdate([ Ctx EXCEPT !.calls = << >> ],
                              FlappyGlideJump(gameVars), rnd))

SpecFlappyGlide == InitFlappy /\ [][FlappyGlide]_vars

\* ----------------------------------------------- the first frame of a game
\* What init writes and what draw reads, for the twelve namespaces.  A
\* namespace's variables are slots; an array all of whose elements are
\* written and read together is one slot, the arrays read up to a count or
\* under a flag have their first two elements as slots.
FrameSessions == 2   \* sessions started in a run

\* The variables of namespace m.
Slots(m) ==
    CASE m = "Flappy" -> { "Flappy.birdY", "Flappy.birdVy", "Flappy.pipes" }
      [] m = "Snake"  -> { "Snake.length", "Snake.body0", "Snake.body1",
                           "Snake.body2", "Snake.body3", "Snake.dir",
                           "Snake.food", "Snake.lastMove", "Snake.speedMs" }
      [] m = "Pong"   -> { "Pong.ballX", "Pong.ballY", "Pong.ballVx",
                           "Pong.ballVy", "Pong.paddleY", "Pong.aiY" }
      [] m = "Brick"  -> { "Brick.ballX", "Brick.ballY", "Brick.ballVx",
                           "Brick.ballVy", "Brick.paddleX", "Brick.bricks",
                           "Brick.lastRowTime", "Brick.speedMs" }
      [] m = "Knife"  -> { "Knife.angle", "Knife.knifeY", "Knife.knifeFlying",
                           "Knife.knives0", "Knife.knives1",
                           "Knife.knifeCount", "Knife.knivesToWin",
                           "Knife.level" }
      [] m = "Dodge"  -> { "Dodge.obs0.active", "Dodge.obs0.pos",
                           "Dodge.obs1.active", "Dodge.obs1.pos",
                           "Dodge.playerX", "Dodge.playerY",
                           "Dodge.spawnRate", "Dodge.lastSpawn" }
      [] m = "Mario"  -> { "Mario.playerY", "Mario.playerVy", "Mario.ground",
                           "Mario.ent0.active", "Mario.ent0.body",
                           "Mario.ent1.active", "Mario.ent1.body",
                           "Mario.speed", "Mario.offset" }
      [] m = "Heli"   -> { "Heli.y", "Heli.vy", "Heli.roof", "Heli.floor",
                           "Heli.offset", "Heli.speed" }
      [] m = "Tunnel" -> { "Tunnel.leftWall", "Tunnel.rightWall",
                           "Tunnel.playerX", "Tunnel.speedMs",
                           "Tunnel.lastMove" }
      [] m = "Doodle" -> { "Doodle.playerX", "Doodle.playerY",
                           "Doodle.playerVy", "Doodle.plats",
                           "Doodle.cameraY", "Doodle.maxScoreY" }
      [] m = "Stack"  -> { "Stack.currentX", "Stack.currentW", "Stack.speed",
                           "Stack.movingRight", "Stack.prevX", "Stack.prevW",
                           "Stack.stackHeight" }
      [] m = "Tetris" -> { "Tetris.grid", "Tetris.curr", "Tetris.lastDrop",
                           "Tetris.dropSpeed" }
      [] OTHER -> { }

\* The slots whose value decides what draw reads, and the values a session
\* may leave in them.
CountSlots ==
    { "Snake.length", "Knife.knifeCount", "Dodge.obs0.active",
      "Dodge.obs1.active", "Mario.ent0.active", "Mario.ent1.active" }
CountRange(s) ==
    CASE s = "Snake.length" -> 3 .. 4
      [] s = "Knife.knifeCount" -> 0 .. 2
      [] OTHER -> 0 .. 1

\* A faulty Knife::init: knifeCount is not reset.
InitWrites_KnifeKeepsCount(m) ==
    IF m = "Knife" THEN Slots(m) \ { "Knife.knives0", "Knife.knives1",
                                     "Knife.knifeCount" }
    ELSE Slots(m) \ { "Snake.body3", "Dodge.obs0.pos", "Dodge.obs1.pos",
                      "Mario.ent0.body", "Mario.ent1.body" }

\* The slots <m>::init writes: all but the array elements past the initial
\* count and the bodies of the entities it only deactivates.
InitWrites(m) ==
    Slots(m) \ { "Snake.body3", "Knife.knives0", "Knife.knives1",
                 "Dodge.obs0.pos", "Dodge.obs1.pos",
                 "Mario.ent0.body", "Mario.ent1.body" }

\* The value <m>::init leaves in a count slot.
InitCount(s) == IF s = "Snake.length" THEN 3 ELSE 0

\* The slots <m>::draw reads when the count slots hold val.
DrawReads(m, val) ==
    CASE m = "Flappy" -> { "Flappy.birdY", "Flappy.pipes" }
      [] m = "Snake"  ->
           { "Snake.food", "Snake.length" }
           \cup (IF val["Snake.length"] > 0 THEN { "Snake.body0" } ELSE { })
           \cup (IF val["Snake.length"] > 1 THEN { "Snake.body1" } ELSE { })
           \cup (IF val["Snake.length"] > 2 THEN { "Snake.body2" } ELSE { })
           \cup (IF val["Snake.length"] > 3 THEN { "Snake.body3" } ELSE { })
      [] m = "Pong"   -> { "Pong.paddleY", "Pong.aiY", "Pong.ballX",
                           "Pong.ballY" }
      [] m = "Brick"  -> { "Brick.paddleX", "Brick.ballX", "Brick.ballY",
                           "Brick.bricks" }
      [] m = "Knife"  ->
           { "Knife.knifeCount", "Knife.angle", "Knife.knifeY" }
           \cup (IF val["Knife.knifeCount"] > 0 THEN { "Knife.knives0" }
                 ELSE { })
           \cup (IF val["Knife.knifeCount"] > 1 THEN { "Knife.knives1" }
                 ELSE { })
      [] m = "Dodge"  ->
           { "Dodge.playerX", "Dodge.playerY", "Dodge.obs0.active",
             "Dodge.obs1.active" }
           \cup (IF val["Dodge.obs0.active"] = 1 THEN { "Dodge.obs0.pos" }
                 ELSE { })
           \cup (IF val["Dodge.obs1.active"] = 1 THEN { "Dodge.obs1.pos" }
                 ELSE { })
      [] m = "Mario"  ->
           { "Mario.playerY", "Mario.ground", "Mario.offset",
             "Mario.ent0.active", "Mario.ent1.active" }
           \cup (IF val["Mario.ent0.active"] = 1 THEN { "Mario.ent0.body" }
                 ELSE { })
           \cup (IF val["Mario.ent1.active"] = 1 THEN { "Mario.ent1.body" }
                 ELSE { })
      [] m = "Heli"   -> { "Heli.y", "Heli.roof", "Heli.floor", "Heli.offset" }
      [] m = "Tunnel" -> { "Tunnel.playerX", "Tunnel.leftWall",
                           "Tunnel.rightWall" }
      [] m = "Doodle" -> { "Doodle.playerX", "Doodle.playerY",
                           "Doodle.plats" }
      [] m = "Stack"  -> { "Stack.prevX", "Stack.prevW", "Stack.currentX",
                           "Stack.currentW", "Stack.stackHeight" }
      [] m = "Tetris" -> { "Tetris.grid", "Tetris.curr" }
      [] OTHER -> { }

AllSlots == UNION { Slots(m) : m \in Modules }

\* The namespaces at boot: no slot written, every count zero.  A slot is
\* tagged boot (never written), init (written by the init call of the
\* session being started) or old (last written in an earlier session).
FrameBoot ==
    [ kind |-> "FirstFrame", phase |-> "menu", starts |-> 0,
      shown |-> NoModule, reads |-> { },
      tag |-> [ s \in AllSlots |-> "boot" ],
      val |-> [ s \in CountSlots |-> 0 ] ]

\* <m>::init on the namespaces g.
FrameInit(g, m) ==
    [ g EXCEPT !.starts = @ + 1,
               !.tag = [ s \in AllSlots |->
                           IF s \in InitWrites(m) THEN "init" ELSE g.tag[s] ],
               !.val = [ s \in CountSlots |->
                           IF s \in InitWrites(m) THEN InitCount(s)
                           ELSE g.val[s] ] ]

\* <m>::draw on the namespaces g: the slots it reads are noted.
FrameDraw(g, m) ==
    [ g EXCEPT !.phase = "drawn", !.shown = m, !.reads = DrawReads(m, g.val) ]

\* The tick of the menu in which SELECT starts game gid: startGame in
\* the update, drawGame in the draw of the same tick.
FrameStart ==
    /\ gameVars.kind = "FirstFrame"
    /\ gameVars.phase = "menu"
    /\ gameVars.starts < FrameSessions
    /\ \E gid \in GameType :
         LET c0 == [ Ctx EXCEPT !.calls = << >>, !.menuIndex = gid,
                                !.selectedGame = gid ]
             c1 == startGame(c0, gid)
             c2 == [ c1 EXCEPT !.gameVars = FrameInit(@, StartSwitch(gid)) ]
             c3 == draw(c2)
         IN  Becomes([ c3 EXCEPT !.gameVars = FrameDraw(@, DrawSwitch(gid)) ])

\* The rest of the session, up to the return to the menu: its updates
\* leave any values in the namespace of the game.
FramePlay ==
    /\ gameVars.kind = "FirstFrame"
    /\ gameVars.phase = "drawn"
    /\ \E v \in [ CountSlots \cap Slots(gameVars.shown) -> 0 .. 4 ] :
         /\ \A s \in DOMAIN v : v[s] \in CountRange(s)
         /\ Becomes([ Ctx EXCEPT
              !.currentState = STATE_MENU,
              !.calls = << >>,
              !.gameVars =
                 [ gameVars EXCEPT
                     !.phase = "menu",
                     !.tag = [ s \in AllSlots |->
                                 IF s \in Slots(gameVars.shown) THEN "old"
                                 ELSE gameVars.tag[s] ],
                     !.val = [ s \in CountSlots |->
                                 IF s \in DOMAIN v THEN v[s]
                                 ELSE gameVars.val[s] ] ] ])

InitFrame == StartsAs(BootWith(FrameBoot))
NextFrame == FrameStart \/ FramePlay
SpecFrame == InitFrame /\ [][NextFrame]_vars

\* ------------------------------------------------------------------ Snake
SnakeTicks == 3      \* updates of a Snake session in a run
SnakeDt == 80        \* milliseconds from one pass of loop() to the next

MAX_LEN == 128
Point(px, py) == [ x |-> px, y |-> py ]

\* The cells random() gives in spawnFood in a run: three of the 32 x 14.
FoodCells == { Point(11, 10), Point(12, 10), Point(11, 9) }

\* Snake::init at time t with the food on cell f.  body holds the first
\* length cells of the array, the rest of which is zero after boot.
\* guided and free are the session's bookkeeping: whether it starts with
\* the guided play, and the passes made outside it.
SnakeInit(t, f) ==
    [ kind |-> "Snake", ticks |-> 0, over |-> FALSE,
      guided |-> FALSE, free |-> 0,
      body |-> << Point(10, 10), Point(9, 10), Point(8, 10) >>,
      dir |-> Point(1, 0), food |-> f, lastMove |-> t, speedMs |-> 150 ]

\* A faulty heading rule: the heading follows the button whatever it is.
SnakeTurn_NoGate(bs, dir) ==
    IF isJustPressed(bs, UP) THEN Point(0, -1)
    ELSE IF isJustPressed(bs, DOWN) THEN Point(0, 1)
    ELSE IF isJustPressed(bs, LEFT) THEN Point(-1, 0)
    ELSE IF isJustPressed(bs, RIGHT) THEN Point(1, 0)
    ELSE dir

\* The input block of Snake::update: the heading after it.
SnakeTurn(bs, dir) ==
    IF isJustPressed(bs, UP) /\ dir.y = 0 THEN Point(0, -1)
    ELSE IF isJustPressed(bs, DOWN) /\ dir.y = 0 THEN Point(0, 1)
    ELSE IF isJustPressed(bs, LEFT) /\ dir.x = 0 THEN Point(-1, 0)
    ELSE IF isJustPressed(bs, RIGHT) /\ dir.x = 0 THEN Point(1, 0)
    ELSE dir

\* The move block of Snake::update; f is the cell spawnFood settles on.
SnakeMove(c, f) ==
    LET g == c.gameVars
        head == Point(g.body[1].x + g.dir.x, g.body[1].y + g.dir.y)
        body == << head >> \o SubSeq(g.body, 1, Len(g.body) - 1)
        c1 == [ c EXCEPT !.gameVars.lastMove = c.now, !.gameVars.body = body ]
    IN  IF head.x < 0 \/ head.x >= 32 \/ head.y < 2 \/ head.y >= 16
        THEN SetGameOver(sfxCollision(c1), "Snake")
        ELSE IF \E i \in 2 .. Len(body) : body[i] = head
        THEN SetGameOver(sfxCollision(c1), "Snake")
        ELSE IF head = g.food
        THEN [ sfxScore(ScoreUp(c1)) EXCEPT
                 !.gameVars.body = IF Len(body) < MAX_LEN
                                   THEN Append(body, Point(0, 0)) ELSE body,
                 !.gameVars.food = f,
                 !.gameVars.speedMs = IF @ > 50 THEN @ - 2 ELSE @ ]
        ELSE c1

\* A faulty update: the snake steps in every tick.
SnakeUpdate_NoTimer(c, f) ==
    LET g == c.gameVars
        c1 == [ Log(c, "update", "Snake") EXCEPT
                  !.gameVars.dir = SnakeTurn(c.buttons, g.dir),
                  !.gameVars.ticks = @ + 1 ]
    IN  SnakeMove(c1, f)

\* A faulty resample test: the head is not looked at.
FoodOffBody_SkipsHead(g) == \A i \in 2 .. Len(g.body) : g.body[i] # g.food

\* Snake::update.
SnakeUpdate(c, f) ==
    LET g == c.gameVars
        c1 == [ Log(c, "update", "Snake") EXCEPT
                  !.gameVars.dir = SnakeTurn(c.buttons, g.dir),
                  !.gameVars.ticks = @ + 1 ]
    IN  IF c.now - g.lastMove > g.speedMs THEN SnakeMove(c1, f) ELSE c1

\* spawnFood draws again while the food is on the body.
FoodOffBody(g) == \A i \in 1 .. Len(g.body) : g.body[i] # g.food

\* The guided play: the snake sweeps row 10 to the right wall, steps down
\* and sweeps row 11 to the left, and so on, each food lying on the cell
\* the head reaches next.  GuideNext is that cell, GuideReading the pins
\* read LOW in the coming pass.
SnakeGuideFoods == 50   \* foods eaten in the guided play

GuideNext(head, dir) ==
    IF dir.y = 0
    THEN IF head.x + dir.x < 0 \/ head.x + dir.x >= 32
         THEN Point(head.x, head.y + 1)
         ELSE Point(head.x + dir.x, head.y)
    ELSE IF head.y % 2 = 0 THEN Point(head.x, head.y + 1)
         ELSE Point(IF head.x = 0 THEN 1 ELSE head.x - 1, head.y)

GuideReading(g) ==
    LET head == g.body[1]
    IN  IF g.dir.y = 0
        THEN IF head.x + g.dir.x < 0 \/ head.x + g.dir.x >= 32
             THEN { DOWN } ELSE { }
        ELSE IF head.y % 2 = 0 THEN { }
             ELSE IF head.x = 0 THEN { RIGHT } ELSE { LEFT }

\* The cell ahead of the head as the update of c leaves it.
SnakeAhead(c) ==
    LET g == c.gameVars
        d == SnakeTurn(c.buttons, g.dir)
        head == IF c.now - g.lastMove > g.speedMs
                THEN Point(g.body[1].x + d.x, g.body[1].y + d.y)
                ELSE g.body[1]
    IN  GuideNext(head, d)

\* A pass of the guided play: the poll of the buttons and the call of
\* Snake::update.
SnakeGuide ==
    /\ gameVars.kind = "Snake"
    /\ ~gameVars.over
    /\ gameVars.guided
    /\ score < SnakeGuideFoods
    /\ LET c0 == inputUpdate([ Ctx EXCEPT !.calls = << >> ], SnakeDt,
                             GuideReading(gameVars))
       IN  Becomes([ SnakeUpdate(c0, SnakeAhead(c0)) EXCEPT
                       !.presses = presses ])

\* A Playing tick of a Snake session, past the guided play if any: the
\* poll of the buttons and the call of Snake::update.
SnakeTick ==
    /\ gameVars.kind = "Snake"
    /\ ~gameVars.over
    /\ gameVars.guided => score >= SnakeGuideFoods
    /\ gameVars.free < SnakeTicks
    /\ \E held \in SUBSET { UP, DOWN, LEFT, RIGHT } :
         LET c0 == inputUpdate([ Ctx EXCEPT !.calls = << >> ], SnakeDt, held)
         IN  \E f \in FoodCells \cup { SnakeAhead(c0) } :
               LET r == SnakeUpdate(c0, f)
               IN  /\ r.gameVars.over \/ FoodOffBody(r.gameVars)
                   /\ Becomes([ r EXCEPT !.presses = presses,
                                         !.gameVars.free = @ + 1 ])

InitSnake ==
    \/ \E f \in FoodCells :
          StartsAs(SessionStart(GAME_SNAKE, SnakeInit(0, f)))
    \/ StartsAs(SessionStart(GAME_SNAKE,
                  [ SnakeInit(0, Point(11, 10)) EXCEPT !.guided = TRUE ]))
NextSnake == SnakeGuide \/ SnakeTick
SpecSnake == InitSnake /\ [][NextSnake]_vars

\* The same game under the whole of loop(), with the pause: the long press
\* of SELECT pauses, SELECT resumes. The session begins as startGame leaves
\* it, SELECT just pressed at time 0, the food out of the snake's way.
\* passes and played are the session's bookkeeping: the passes made, and
\* the time spent in Playing since the snake's last step (the time before
\* a pass is counted as played if that pass found the game in Playing).
SnakePausePasses == 13   \* passes of a session in a run
SnakePauseDt == 61       \* milliseconds from one pass of loop() to the next

\* GameEngine::updateGame with Snake::update as the module's update.
SnakeUpdateGame(c, f) ==
    LET c1 == SnakeUpdate(Log(c, "updateGame", 0), f)
    IN  IF c1.gameVars.over
        THEN [ Log(sfxGameOver(c1), "delay", GAME_OVER_DELAY)
                 EXCEPT !.currentState = STATE_MENU,
                        !.now = @ + GAME_OVER_DELAY ]
        ELSE c1

\* A pass of loop() that finds the game in Playing.
SnakePlayPass ==
    /\ gameVars.kind = "Snake"
    /\ currentState = STATE_PLAYING
    /\ gameVars.passes < SnakePausePasses
    /\ \E held \in SUBSET { SELECT } :
         LET c0 == Log(inputUpdate([ Ctx EXCEPT !.calls = << >> ],
                                   SnakePauseDt, held),
                       "engine.update", 0)
             c1 == IF isLongPressed(c0.buttons, SELECT, c0.now)
                   THEN pauseToggle(c0)
                   ELSE SnakeUpdateGame(Log(c0, "isLongPressed", 0),
                                        gameVars.food)
         IN  Becomes([ draw(c1) EXCEPT
                         !.presses = presses,
                         !.gameVars.passes = @ + 1,
                         !.gameVars.played =
                             IF c1.gameVars.lastMove # gameVars.lastMove
                             THEN 0 ELSE @ + SnakePauseDt ])

\* A pass of loop() that finds the game in Paused.
SnakePausedPass ==
    /\ gameVars.kind = "Snake"
    /\ currentState = STATE_PAUSED
    /\ gameVars.passes < SnakePausePasses
    /\ \E held \in SUBSET { SELECT } :
         LET c0 == Log(inputUpdate([ Ctx EXCEPT !.calls = << >> ],
                                   SnakePauseDt, held),
                       "engine.update", 0)
         IN  Becomes([ draw(updatePause(c0)) EXCEPT
                         !.presses = presses,
                         !.gameVars.passes = @ + 1 ])

InitSnakePause ==
    StartsAs([ SessionStart(GAME_SNAKE,
                            SnakeInit(0, Point(20, 5))
                              @@ [ passes |-> 0, played |-> 0 ])
                 EXCEPT !.pins = { SELECT },
                        !.buttons[SELECT].pressed = TRUE,
                        !.buttons[SELECT].justPressed = TRUE ])
NextSnakePause == SnakePlayPass \/ SnakePausedPass
SpecSnakePause == InitSnakePause /\ [][NextSnakePause]_vars

\* ---------------------------------------------------------- Stack Builder
\* The floats of the namespace are kept as integers in units of 2^-23
\* pixel, the spacing of the floats between 1 and 2: every value the game
\* computes is a multiple of it, and Fl rounds as float arithmetic does.
StackTicks == 12     \* updates of a Stack Builder session in a run
StackDt == 50        \* milliseconds from one pass of loop() to the next

\* n pixels.
Px(n) == n * 8388608

\* The spacing of the floats around magnitude a.
RECURSIVE Ulp(_)
Ulp(a) == IF a < 16777216 THEN 1 ELSE 2 * Ulp(a \div 2)

\* a / d, a >= 0, rounded to the nearest multiple of q, ties to even.
RoundTo(a, d, q) ==
    LET lo == (a \div (d * q)) * q
        r == a - lo * d
    IN  IF 2 * r < d * q THEN lo
        ELSE IF 2 * r > d * q THEN lo + q
        ELSE IF (lo \div q) % 2 = 0 THEN lo ELSE lo + q

\* The float nearest to n.
Fl(n) == IF n < 0 THEN -RoundTo(-n, 1, Ulp(-n)) ELSE RoundTo(n, 1, Ulp(n))

\* speed += 0.2: the sum is taken in double and stored as a float.
SpeedUp(sp) == RoundTo(5 * sp + Px(1), 5, Ulp(sp + Px(1) \div 5))

Max(a, b) == IF a > b THEN a ELSE b
Min(a, b) == IF a < b THEN a ELSE b

\* Stack::init.
StackInit ==
    [ kind |-> "Stack", ticks |-> 0, over |-> FALSE,
      currentW |-> Px(60), currentX |-> 0, speed |-> Px(3) \div 2,
      movingRight |-> TRUE, prevX |-> Fl((Px(128) - Px(60)) \div 2),
      prevW |-> Px(60), stackHeight |-> 0 ]

\* The move block of Stack::update.
StackMove(g) ==
    IF g.movingRight
    THEN LET x == Fl(g.currentX + g.speed)
         IN  [ g EXCEPT !.currentX = x,
                        !.movingRight = ~(Fl(x + g.currentW) >= Px(128)) ]
    ELSE LET x == Fl(g.currentX - g.speed)
         IN  [ g EXCEPT !.currentX = x, !.movingRight = (x <= 0) ]

\* The overlap Stack::update computes for the block at its moved place.
StackLeft(g) == Max(g.currentX, g.prevX)
StackOverlap(g) ==
    Fl(Min(Fl(g.currentX + g.currentW), Fl(g.prevX + g.prevW)) - StackLeft(g))

\* A faulty drop: the block keeps its width.
StackDrop_KeepsWidth(c) ==
    LET c1 == sfxClick(c)
        g == c1.gameVars
        overlap == StackOverlap(g)
    IN  IF overlap <= 0
        THEN SetGameOver(sfxCollision(c1), "Stack")
        ELSE [ sfxScore(ScoreUp(c1)) EXCEPT
                 !.gameVars.prevX = StackLeft(g),
                 !.gameVars.prevW = overlap,
                 !.gameVars.currentX = 0,
                 !.gameVars.movingRight = TRUE,
                 !.gameVars.stackHeight = @ + 1,
                 !.gameVars.speed = SpeedUp(@) ]

\* The drop block of Stack::update.
StackDrop(c) ==
    LET c1 == sfxClick(c)
        g == c1.gameVars
        overlap == StackOverlap(g)
    IN  IF overlap <= 0
        THEN SetGameOver(sfxCollision(c1), "Stack")
        ELSE [ sfxScore(ScoreUp(c1)) EXCEPT
                 !.gameVars.prevX = StackLeft(g),
                 !.gameVars.prevW = overlap,
                 !.gameVars.currentW = overlap,
                 !.gameVars.currentX = 0,
                 !.gameVars.movingRight = TRUE,
                 !.gameVars.stackHeight = @ + 1,
                 !.gameVars.speed = SpeedUp(@) ]

\* Stack::update.
StackUpdate(c) ==
    LET c1 == [ Log(c, "update", "Stack") EXCEPT
                  !.gameVars = [ StackMove(@) EXCEPT !.ticks = @ + 1 ] ]
    IN  IF isJustPressed(c1.buttons, SELECT) THEN StackDrop(c1) ELSE c1

\* A Playing tick of a Stack Builder session: the poll of the buttons and
\* the call of Stack::update.
StackTick ==
    /\ gameVars.kind = "Stack"
    /\ ~gameVars.over
    /\ gameVars.ticks < StackTicks
    /\ \E held \in SUBSET { SELECT } :
         LET c0 == inputUpdate([ Ctx EXCEPT !.calls = << >> ], StackDt, held)
         IN  Becomes([ StackUpdate(c0) EXCEPT !.presses = presses ])

InitStack == StartsAs(SessionStart(GAME_STACK, StackInit))
NextStack == StackTick
SpecStack == InitStack /\ [][NextStack]_vars

\* The same game under the whole of loop(), the pause toggle of
\* GameEngine::update included. The session begins as startGame leaves it,
\* SELECT just pressed at time 0; dropPress is the session's bookkeeping:
\* the pressTime of the press of SELECT that last dropped a block, -1 if
\* none did.
StackPauseTicks == 10  \* passes of a session in a run
StackPauseDt == 151    \* milliseconds from one pass of loop() to the next

\* GameEngine::updateGame with Stack::update as the module's update.
StackUpdateGame(c) ==
    LET c1 == StackUpdate(Log(c, "updateGame", 0))
    IN  IF c1.gameVars.over
        THEN [ Log(sfxGameOver(c1), "delay", GAME_OVER_DELAY)
                 EXCEPT !.currentState = STATE_MENU,
                        !.now = @ + GAME_OVER_DELAY ]
        ELSE c1

\* GameEngine::update while playing Stack Builder.
StackEngineUpdate(c) ==
    LET c0 == Log(c, "engine.update", 0)
    IN  IF isLongPressed(c0.buttons, SELECT, c0.now)
        THEN pauseToggle(c0)
        ELSE LET c1 == StackUpdateGame(Log(c0, "isLongPressed", 0))
             IN  IF isJustPressed(c0.buttons, SELECT)
                 THEN [ c1 EXCEPT !.gameVars.dropPress =
                                      c0.buttons[SELECT].pressTime ]
                 ELSE c1

\* A pass of loop() while playing.
StackPauseTick ==
    /\ gameVars.kind = "Stack"
    /\ currentState = STATE_PLAYING
    /\ gameVars.ticks < StackPauseTicks
    /\ \E held \in SUBSET { SELECT } :
         LET c0 == inputUpdate([ Ctx EXCEPT !.calls = << >> ],
                               StackPauseDt, held)
         IN  Becomes([ draw(StackEngineUpdate(c0)) EXCEPT
                         !.presses = presses ])

InitStackPause ==
    StartsAs([ SessionStart(GAME_STACK, StackInit @@ [ dropPress |-> -1 ])
                 EXCEPT !.pins = { SELECT },
                        !.buttons[SELECT].pressed = TRUE,
                        !.buttons[SELECT].justPressed = TRUE ])
NextStackPause == StackPauseTick
SpecStackPause == InitStackPause /\ [][NextStackPause]_vars

\* ----------------------------------------------------------------- Tetris
TetrisTicks == 3     \* updates of a Tetris session followed move by move
TetrisDt == 260      \* milliseconds from one pass of loop() to the next
TetrisRounds == 26   \* rounds of two cleared rows in the long record
TetrisIdleTicks == 46  \* passes followed once the buttons are left alone

COLS == 10
ROWS == 20

\* The pins read LOW in a pass of a Tetris session.
TetrisReadings ==
    { { }, { DOWN }, { LEFT }, { RIGHT }, { SELECT }, { DOWN, LEFT },
      { DOWN, RIGHT } }

\* getBlocks: the four cells of a piece, relative to its origin.
getBlocks(type, rot) ==
    CASE type = 0 ->
           IF rot % 2 = 0
           THEN << << 0, 1 >>, << 1, 1 >>, << 2, 1 >>, << 3, 1 >> >>
           ELSE << << 1, 0 >>, << 1, 1 >>, << 1, 2 >>, << 1, 3 >> >>
      [] type = 1 -> << << 1, 0 >>, << 2, 0 >>, << 1, 1 >>, << 2, 1 >> >>
      [] type = 2 ->
           ( CASE rot = 0 -> << << 1, 0 >>, << 0, 1 >>, << 1, 1 >>, << 2, 1 >> >>
             [] rot = 1 -> << << 1, 0 >>, << 1, 1 >>, << 2, 1 >>, << 1, 2 >> >>
             [] rot = 2 -> << << 0, 1 >>, << 1, 1 >>, << 2, 1 >>, << 1, 2 >> >>
             [] rot = 3 -> << << 1, 0 >>, << 0, 1 >>, << 1, 1 >>, << 1, 2 >> >> )
      [] type = 3 ->
           IF rot % 2 = 0
           THEN << << 1, 0 >>, << 2, 0 >>, << 0, 1 >>, << 1, 1 >> >>
           ELSE << << 1, 0 >>, << 1, 1 >>, << 2, 1 >>, << 2, 2 >> >>
      [] type = 4 ->
           IF rot % 2 = 0
           THEN << << 0, 0 >>, << 1, 0 >>, << 1, 1 >>, << 2, 1 >> >>
           ELSE << << 2, 0 >>, << 1, 1 >>, << 2, 1 >>, << 1, 2 >> >>
      [] type = 5 ->
           ( CASE rot = 0 -> << << 0, 0 >>, << 0, 1 >>, << 1, 1 >>, << 2, 1 >> >>
             [] rot = 1 -> << << 1, 0 >>, << 2, 0 >>, << 1, 1 >>, << 1, 2 >> >>
             [] rot = 2 -> << << 0, 1 >>, << 1, 1 >>, << 2, 1 >>, << 2, 2 >> >>
             [] rot = 3 -> << << 1, 0 >>, << 1, 1 >>, << 0, 2 >>, << 1, 2 >> >> )
      [] type = 6 ->
           ( CASE rot = 0 -> << << 2, 0 >>, << 0, 1 >>, << 1, 1 >>, << 2, 1 >> >>
             [] rot = 1 -> << << 1, 0 >>, << 1, 1 >>, << 1, 2 >>, << 2, 2 >> >>
             [] rot = 2 -> << << 0, 1 >>, << 1, 1 >>, << 2, 1 >>, << 0, 2 >> >>
             [] rot = 3 -> << << 0, 0 >>, << 1, 0 >>, << 1, 1 >>, << 1, 2 >> >> )

\* row & (1 << nx), and row | (1 << nx).
Bit(row, nx) == (row \div (2 ^ nx)) % 2 = 1
SetBit(row, nx) == IF Bit(row, nx) THEN row ELSE row + 2 ^ nx

\* A faulty checkCollision: only the walls and the floor are looked at.
checkCollision_WallsOnly(g, px, py, rot) ==
    LET b == getBlocks(g.curr.type, rot)
    IN  \E i \in 1 .. 4 :
          LET nx == px + b[i][1]
              ny == py + b[i][2]
          IN  nx < 0 \/ nx >= COLS \/ ny >= ROWS

\* checkCollision; grid[y] of the code is g.grid[y + 1].
checkCollision(g, px, py, rot) ==
    LET b == getBlocks(g.curr.type, rot)
    IN  \E i \in 1 .. 4 :
          LET nx == px + b[i][1]
              ny == py + b[i][2]
          IN  \/ nx < 0 \/ nx >= COLS \/ ny >= ROWS
              \/ ny >= 0 /\ Bit(g.grid[ny + 1], nx)

\* placePiece: the grid after the first n cells of the piece are written.
RECURSIVE PlaceCells(_, _)
PlaceCells(g, n) ==
    IF n = 0 THEN g.grid
    ELSE LET grid == PlaceCells(g, n - 1)
             b == getBlocks(g.curr.type, g.curr.rot)
             ny == g.curr.y + b[n][2]
             nx == g.curr.x + b[n][1]
         IN  IF ny >= 0
             THEN [ grid EXCEPT ![ny + 1] = SetBit(@, nx) ]
             ELSE grid

placePiece(c) ==
    LET grid == PlaceCells(c.gameVars, 4)
    IN  [ Log(c, "placePiece", 0) EXCEPT !.gameVars.grid = grid,
                                         !.gameVars.placed = grid ]

\* spawnPiece; rnd is what random(0, 7) gives.
spawnPiece(c, rnd) ==
    [ c EXCEPT !.gameVars.curr = [ x |-> 3, y |-> -2, type |-> rnd, rot |-> 0 ] ]

\* Tetris::init at time t.  The rest is the session's bookkeeping: placed
\* is the grid as placePiece last left it, play and pos the record replayed
\* and the passes of it done, free the passes made past it.
TetrisInit(t, rnd) ==
    [ kind |-> "Tetris", ticks |-> 0, over |-> FALSE,
      play |-> 0, pos |-> 0, free |-> 0,
      grid |-> [ k \in 1 .. ROWS |-> 0 ],
      placed |-> [ k \in 1 .. ROWS |-> 0 ],
      curr |-> [ x |-> 3, y |-> -2, type |-> rnd, rot |-> 0 ],
      lastDrop |-> t, dropSpeed |-> 500 ]

\* A faulty line clear: the full row is emptied where it is.
ClearRow_NoShift(c, y) ==
    LET c1 == [ Log(c, "score", c.score + 10) EXCEPT
                  !.score = @ + 10,
                  !.gameVars.grid = [ @ EXCEPT ![y + 1] = 0 ] ]
    IN  [ sfxScore(c1) EXCEPT !.gameVars.dropSpeed = @ - 10 ]

\* The body of the line-clear loop for a full row y.
ClearRow(c, y) ==
    LET c1 == [ Log(c, "score", c.score + 10) EXCEPT
                  !.score = @ + 10,
                  !.gameVars.grid =
                     [ k \in 1 .. ROWS |->
                         IF k = 1 THEN 0
                         ELSE IF k <= y + 1 THEN c.gameVars.grid[k - 1]
                         ELSE c.gameVars.grid[k] ] ]
    IN  [ sfxScore(c1) EXCEPT !.gameVars.dropSpeed = @ - 10 ]

\* The line-clear loop from row y on.
RECURSIVE ClearLines(_, _)
ClearLines(c, y) ==
    IF y >= ROWS THEN c
    ELSE IF c.gameVars.grid[y + 1] = 1023
         THEN ClearLines(ClearRow(c, y), y + 1)
         ELSE ClearLines(c, y + 1)

\* The rotation and move blocks of Tetris::update.
TetrisSteer(c) ==
    LET g0 == c.gameVars
        nextRot == (g0.curr.rot + 1) % 4
        c1 == IF isJustPressed(c.buttons, SELECT)
                 /\ ~checkCollision(g0, g0.curr.x, g0.curr.y, nextRot)
              THEN sfxClick([ c EXCEPT !.gameVars.curr.rot = nextRot ])
              ELSE c
        g1 == c1.gameVars
        c2 == IF isJustPressed(c.buttons, LEFT)
                 /\ ~checkCollision(g1, g1.curr.x - 1, g1.curr.y, g1.curr.rot)
              THEN [ c1 EXCEPT !.gameVars.curr.x = @ - 1 ]
              ELSE c1
        g2 == c2.gameVars
    IN  IF isJustPressed(c.buttons, RIGHT)
           /\ ~checkCollision(g2, g2.curr.x + 1, g2.curr.y, g2.curr.rot)
        THEN [ c2 EXCEPT !.gameVars.curr.x = @ + 1 ]
        ELSE c2

\* millis() - lastDrop > dropSpeed, the int converted to unsigned long.
DropDue(c) ==
    \/ isPressed(c.buttons, DOWN)
    \/ c.gameVars.dropSpeed >= 0
         /\ c.now - c.gameVars.lastDrop > c.gameVars.dropSpeed

\* A faulty drop: a piece that cannot move down at curr.y = 0 ends the
\* session too.
TetrisDrop_OverAtZero(c, rnd) ==
    LET g == c.gameVars
        c1 == [ c EXCEPT !.gameVars.lastDrop = c.now ]
    IN  IF ~checkCollision(g, g.curr.x, g.curr.y + 1, g.curr.rot)
        THEN [ c1 EXCEPT !.gameVars.curr.y = @ + 1 ]
        ELSE IF g.curr.y <= 0
        THEN sfxCollision(SetGameOver(c1, "Tetris"))
        ELSE spawnPiece(ClearLines(sfxClick(placePiece(c1)), 0), rnd)

\* The drop block of Tetris::update, taken when a drop is due.
TetrisDrop(c, rnd) ==
    LET g == c.gameVars
        c1 == [ c EXCEPT !.gameVars.lastDrop = c.now ]
    IN  IF ~checkCollision(g, g.curr.x, g.curr.y + 1, g.curr.rot)
        THEN [ c1 EXCEPT !.gameVars.curr.y = @ + 1 ]
        ELSE IF g.curr.y < 0
        THEN sfxCollision(SetGameOver(c1, "Tetris"))
        ELSE spawnPiece(ClearLines(sfxClick(placePiece(c1)), 0), rnd)

\* Tetris::update.
TetrisUpdate(c, rnd) ==
    LET c1 == TetrisSteer([ Log(c, "update", "Tetris") EXCEPT
                              !.gameVars.ticks = @ + 1 ])
    IN  IF DropDue(c1) THEN TetrisDrop(c1, rnd) ELSE c1

\* A Playing pass of a Tetris session: the poll of the buttons and the
\* call of Tetris::update.
TetrisPass(c, held, rnd) ==
    [ TetrisUpdate(inputUpdate([ c EXCEPT !.calls = << >> ], TetrisDt, held),
                   rnd)
        EXCEPT !.presses = c.presses ]

\* The pass with the pins reading held spawns a piece.
TetrisSpawns(c, held) ==
    LET c1 == TetrisSteer(inputUpdate(c, TetrisDt, held))
        p == c1.gameVars.curr
    IN  /\ DropDue(c1)
        /\ checkCollision(c1.gameVars, p.x, p.y + 1, p.rot)
        /\ p.y >= 0

\* A recorded play: the readings of its passes, each with what random()
\* gives if a piece is spawned in it.
Holds(held, rnd, n) == [ i \in 1 .. n |-> [ held |-> held, rnd |-> rnd ] ]

RECURSIVE Taps(_, _)
Taps(btn, n) ==
    IF n = 0 THEN << >>
    ELSE << [ held |-> { DOWN, btn }, rnd |-> 0 ],
            [ held |-> { DOWN }, rnd |-> 0 ] >> \o Taps(btn, n - 1)

\* Two I pieces laid flat side by side on the row where a piece comes to
\* rest after the given number of passes; next is the piece spawned then.
FlatRow(passes, next) ==
    Taps(LEFT, 3) \o Holds({ DOWN }, 0, passes - 6)
    \o Taps(RIGHT, 1) \o Holds({ DOWN }, next, passes - 2)

\* An O piece steered over the two right columns and lowered to y = 17.
SquareAtRight == Taps(RIGHT, 4) \o Holds({ DOWN }, 0, 11)

\* O pieces k .. n dropped where they spawn, one on the other.
RECURSIVE Tower(_, _)
Tower(k, n) ==
    IF k > n THEN << >>
    ELSE Holds({ DOWN }, 1, 23 - 2 * k) \o Tower(k + 1, n)

\* Two rows filled and cleared: four flat I pieces and an O piece brought
\* down beside them; the piece spawned at the end is an I piece again.
TwoLines ==
    FlatRow(21, 0) \o FlatRow(20, 1) \o SquareAtRight
    \o Holds({ DOWN }, 0, 2)

RECURSIVE Rounds(_)
Rounds(n) == IF n = 0 THEN << >> ELSE TwoLines \o Rounds(n - 1)

\* The recorded plays, each with its first piece.
TetrisPlays ==
    << [ first |-> 0, script |-> FlatRow(21, 1) \o SquareAtRight ],
       [ first |-> 0,
         script |-> FlatRow(21, 0) \o FlatRow(20, 1) \o SquareAtRight ],
       [ first |-> 1, script |-> Tower(1, 9) \o Holds({ DOWN }, 0, 2) ],
       [ first |-> 0, script |-> Rounds(TetrisRounds) ] >>

\* A pass of a session that replays a record: the pins read as recorded.
TetrisReplay ==
    /\ gameVars.kind = "Tetris"
    /\ ~gameVars.over
    /\ gameVars.play > 0
    /\ gameVars.pos < Len(TetrisPlays[gameVars.play].script)
    /\ LET e == TetrisPlays[gameVars.play].script[gameVars.pos + 1]
       IN  Becomes([ TetrisPass(Ctx, e.held, e.rnd) EXCEPT
                       !.gameVars.pos = @ + 1 ])

\* A pass of a session past its record, if any: the pins read anything,
\* and random() gives anything in the passes that spawn a piece.
\* GameEngine::update calls updateGame unless SELECT is long-pressed.
TetrisTick ==
    /\ gameVars.kind = "Tetris"
    /\ ~gameVars.over
    /\ gameVars.play > 0 => gameVars.pos = Len(TetrisPlays[gameVars.play].script)
    /\ gameVars.free < TetrisTicks
    /\ \E held \in TetrisReadings, rnd \in 0 .. 6 :
         /\ rnd \in IF TetrisSpawns(Ctx, held) THEN 0 .. 6 ELSE { 0 }
         /\ ~isLongPressed(InputUpdate(buttons, held, now + TetrisDt), SELECT,
                           now + TetrisDt)
         /\ Becomes([ TetrisPass(Ctx, held, rnd) EXCEPT
                        !.gameVars.free = @ + 1 ])

\* A session starts with any first piece, or with the first piece of a
\* record that its passes then replay.
InitTetris ==
    \/ \E rnd \in 0 .. 6 :
          StartsAs(SessionStart(GAME_TETRIS, TetrisInit(0, rnd)))
    \/ \E k \in 1 .. Len(TetrisPlays) :
          StartsAs(SessionStart(GAME_TETRIS,
                     [ TetrisInit(0, TetrisPlays[k].first) EXCEPT !.play = k ]))
NextTetris == TetrisReplay \/ TetrisTick
SpecTetris == InitTetris /\ [][NextTetris]_vars

\* The console when round r of the long record has just been played: the
\* field is empty again, an I piece has been spawned, 2 * r lines have been
\* cleared and DOWN is still held.
RoundPasses == Len(TwoLines)
TetrisAfterRounds(r) ==
    LET t == r * RoundPasses * TetrisDt
        c == SessionStart(GAME_TETRIS, TetrisInit(0, 0))
    IN  [ c EXCEPT
            !.now = t,
            !.pins = { DOWN },
            !.buttons[DOWN].pressed = TRUE,
            !.buttons[DOWN].pressTime = TetrisDt,
            !.buttons[LEFT].pressTime = t - 56 * TetrisDt,
            !.buttons[RIGHT].pressTime = t - 14 * TetrisDt,
            !.tonePlaying = TRUE,
            !.score = 20 * r,
            !.calls = << << "input.update", 0 >>, << "sound.update", 0 >>,
                         << "update", "Tetris" >>, << "placePiece", 0 >>,
                         << "playTone", 1000 >>, << "tone", 1000 >>,
                         << "score", 20 * r - 10 >>,
                         << "playTone", 2000 >>, << "tone", 2000 >>,
                         << "score", 20 * r >>,
                         << "playTone", 2000 >>, << "tone", 2000 >> >>,
            !.gameVars.lastDrop = t,
            !.gameVars.dropSpeed = 500 - 20 * r,
            !.gameVars.placed =
                [ k \in 1 .. ROWS |-> IF k >= ROWS - 1 THEN 1023 ELSE 0 ] ]

\* The long record does lead there, round after round.
TetrisRoundsKept ==
    /\ gameVars.kind = "Tetris"
    /\ gameVars.play = 4
    /\ gameVars.free = 0
    /\ gameVars.pos > 0
    /\ gameVars.pos % RoundPasses = 0
    => [ Ctx EXCEPT !.gameVars.ticks = 0, !.gameVars.pos = 0,
                    !.gameVars.play = 0 ]
         = TetrisAfterRounds(gameVars.pos \div RoundPasses)

\* A pass of a session in which no button is pressed any more: the pins all
\* read HIGH, and random() gives anything if the pass spawns a piece.
TetrisIdle ==
    /\ gameVars.kind = "Tetris"
    /\ ~gameVars.over
    /\ gameVars.free < TetrisIdleTicks
    /\ \E rnd \in 0 .. 6 :
         /\ rnd \in IF TetrisSpawns(Ctx, { }) THEN 0 .. 6 ELSE { 0 }
         /\ Becomes([ TetrisPass(Ctx, { }, rnd) EXCEPT
                        !.gameVars.free = @ + 1 ])

\* The buttons are left alone from the start of a session, or after one of
\* the last rounds of the long record. loop() is called again and again,
\* so a pass that can be made is made.
InitTetrisIdle ==
    \/ \E rnd \in 0 .. 6 :
          StartsAs(SessionStart(GAME_TETRIS, TetrisInit(0, rnd)))
    \/ \E r \in { TetrisRounds - 1, TetrisRounds } :
          StartsAs(TetrisAfterRounds(r))
NextTetrisIdle == TetrisIdle
SpecTetrisIdle ==
    InitTetrisIdle /\ [][NextTetrisIdle]_vars /\ WF_vars(TetrisIdle)

\* ---------------------------------------------------------- Knife Thrower
\* Angles are in hundredths of a radian: the rotation step 0.05 + level *
\* 0.01, the turn 6.28, the quarter turn 1.57 and the reach 0.2 are whole
\* numbers of them, and so is every angle of a session in exact arithmetic.
\* The float sums of the program are off these by their rounding, far less
\* than a unit, so a comparison is settled by the exact values, except one
\* whose exact operands are equal: that one can fall either way, and ties
\* names the comparisons of the update that fall on the side of "greater".
\* knifeY is in pixels.
KnifeTicks == 3        \* updates of a session played freely
KnifeWait == 78        \* updates of the play that throws once, late
KnifeGuideLevel == 150 \* the level the guided play reaches
KnifeDt == 20          \* milliseconds from one pass of loop() to the next

KNIFE_SLOTS == 20
KNIFE_TURN == 628
KNIFE_QUARTER == 157
KNIFE_REACH == 20
KNIFE_HIT_Y == 43
KNIFE_START_Y == 54

KnifeTies == { "angle", "hitAngle", "reach" }

\* Knife::init; the knives array is not written and holds its boot zeros.
KnifeInit ==
    [ kind |-> "Knife", ticks |-> 0, over |-> FALSE,
      play |-> "free", free |-> 0,
      angle |-> 0, knifeY |-> KNIFE_START_Y, knifeFlying |-> FALSE,
      knives |-> [ i \in 0 .. KNIFE_SLOTS - 1 |-> 0 ],
      knifeCount |-> 0, knivesToWin |-> 6, level |-> 1 ]

\* A faulty wrap: the angle is left as it is.
KnifeWrap_Never(a, up) == a

\* if (a > 6.28) a -= 6.28; up: a sum that is 6.28 exactly counts as above.
KnifeWrap(a, up) ==
    IF a > KNIFE_TURN \/ (a = KNIFE_TURN /\ up) THEN a - KNIFE_TURN ELSE a

\* The head of Knife::update: the target turns by one step.
KnifeTurn(a, lvl, ties) == KnifeWrap(a + 5 + lvl, "angle" \in ties)

\* hitAngle, the place on the target the knife arrives at.
KnifeHitAngle(a, ties) == KnifeWrap(a + KNIFE_QUARTER, "hitAngle" \in ties)

\* abs(d).
KnifeAbs(d) == IF d < 0 THEN 0 - d ELSE d

\* The loop over the stuck knives: one of them is within reach of h.
KnifeCollision(g, h, ties) ==
    \E i \in 0 .. g.knifeCount - 1 :
       \/ KnifeAbs(g.knives[i] - h) < KNIFE_REACH
       \/ KnifeAbs(g.knives[i] - h) = KNIFE_REACH /\ "reach" \notin ties

\* A faulty level-up: knivesToWin grows without its cap.
KnifeLevelUp_NoCap(c) ==
    IF c.gameVars.knifeCount >= c.gameVars.knivesToWin
    THEN LET c1 == [ c EXCEPT !.gameVars.knifeCount = 0,
                              !.gameVars.level = @ + 1,
                              !.gameVars.knivesToWin = @ + 2 ]
         IN  Log([ c1 EXCEPT !.score = @ + 10 ], "score", c1.score + 10)
    ELSE c

\* The level-up at the end of a stick.
KnifeLevelUp(c) ==
    IF c.gameVars.knifeCount >= c.gameVars.knivesToWin
    THEN LET c1 == [ c EXCEPT !.gameVars.knifeCount = 0,
                              !.gameVars.level = @ + 1,
                              !.gameVars.knivesToWin =
                                  IF @ + 2 > 15 THEN 15 ELSE @ + 2 ]
         IN  Log([ c1 EXCEPT !.score = @ + 10 ], "score", c1.score + 10)
    ELSE c

\* The knife arrives at the target at h: it meets a stuck knife, or sticks.
KnifeArrive(c, h, ties) ==
    LET c1 == IF KnifeCollision(c.gameVars, h, ties)
              THEN SetGameOver(sfxCollision(c), "Knife")
              ELSE IF c.gameVars.knifeCount < KNIFE_SLOTS
                   THEN KnifeLevelUp(sfxScore(ScoreUp(
                          [ c EXCEPT !.gameVars.knives[c.gameVars.knifeCount] = h,
                                     !.gameVars.knifeCount = @ + 1 ])))
                   ELSE c
    IN  [ c1 EXCEPT !.gameVars.knifeFlying = FALSE,
                    !.gameVars.knifeY = KNIFE_START_Y ]

\* Knife::update.
KnifeUpdate(c, ties) ==
    LET c1 == [ c EXCEPT !.gameVars.ticks = @ + 1,
                         !.gameVars.angle =
                             KnifeTurn(@, c.gameVars.level, ties) ]
        c2 == IF ~c1.gameVars.knifeFlying /\ isJustPressed(c1.buttons, SELECT)
              THEN sfxClick([ c1 EXCEPT !.gameVars.knifeFlying = TRUE ])
              ELSE c1
    IN  IF c2.gameVars.knifeFlying
        THEN LET c3 == [ c2 EXCEPT !.gameVars.knifeY = @ - 4 ]
             IN  IF c3.gameVars.knifeY <= KNIFE_HIT_Y
                 THEN KnifeArrive(c3, KnifeHitAngle(c3.gameVars.angle, ties),
                                  ties)
                 ELSE c3
        ELSE c2

\* The place a knife thrown in the coming update arrives at, two updates on.
KnifeAim(g, ties) ==
    KnifeHitAngle(KnifeTurn(KnifeTurn(KnifeTurn(g.angle, g.level, ties),
                                      g.level, ties), g.level, ties), ties)

\* A knife thrown in the coming update sticks, and where it sticks does not
\* hang on a tie.
KnifeSure(g) ==
    \A ties \in SUBSET KnifeTies :
       /\ KnifeAim(g, ties) = KnifeAim(g, { })
       /\ ~KnifeCollision(g, KnifeAim(g, ties), ties)

\* The pins a led play holds in the coming pass. The late play waits and
\* throws in update 76; the guided play throws whenever SELECT is up, no
\* knife is in flight and the knife is sure to stick.
KnifeLead(g, bs) ==
    IF g.play = "late"
    THEN IF g.ticks = KnifeWait - 3 THEN { SELECT } ELSE { }
    ELSE IF ~g.knifeFlying /\ ~isPressed(bs, SELECT) /\ KnifeSure(g)
         THEN { SELECT }
         ELSE { }

\* The led play is still on.
KnifeLed(g) ==
    \/ g.play = "late" /\ g.ticks < KnifeWait
    \/ g.play = "guided" /\ g.level < KnifeGuideLevel

\* A Playing tick of a led session: the poll of the buttons and the call of
\* Knife::update.
KnifePlay ==
    /\ gameVars.kind = "Knife"
    /\ ~gameVars.over
    /\ KnifeLed(gameVars)
    /\ \E ties \in SUBSET KnifeTies :
         LET c0 == inputUpdate([ Ctx EXCEPT !.calls = << >> ], KnifeDt,
                               KnifeLead(gameVars, buttons))
         IN  Becomes([ KnifeUpdate(c0, ties) EXCEPT !.presses = presses ])

\* A Playing tick of a session played freely, past the led play if any.
KnifeTick ==
    /\ gameVars.kind = "Knife"
    /\ ~gameVars.over
    /\ ~KnifeLed(gameVars)
    /\ gameVars.free < KnifeTicks
    /\ \E held \in SUBSET { SELECT }, ties \in SUBSET KnifeTies :
         LET c0 == inputUpdate([ Ctx EXCEPT !.calls = << >> ], KnifeDt, held)
         IN  Becomes([ KnifeUpdate(c0, ties) EXCEPT
                         !.presses = presses, !.gameVars.free = @ + 1 ])

InitKnife ==
    \E p \in { "free", "late", "guided" } :
       StartsAs(SessionStart(GAME_KNIFE, [ KnifeInit EXCEPT !.play = p ]))
NextKnife == KnifePlay \/ KnifeTick
SpecKnife == InitKnife /\ [][NextKnife]_vars

\* ---------------------------------------------------------- Brick Breaker
\* Lengths and speeds are in tenths of a pixel: the ball starts on a half
\* pixel and moves by 1.5 a pass, floats hold these exactly, and the speed a
\* first paddle hit gives, (ballX - paddleX) / 5 - 2, is a whole number of
\* tenths (beyond that the speed is taken to the nearest tenth). A row of
\* bricks is the set of its columns that hold a brick.
BrickLedPasses == 5    \* passes of the opening, an injection in each
BrickTicks == 2        \* passes of a session played freely after it
BrickDt == 2501        \* milliseconds of the shorter gap between two passes

BRICK_COLS == 12
BRICK_ROWS == 8
BRICK_W == 100
BRICK_H == 60
BRICK_PADDLE_W == 200
BRICK_WIDTH == 1280
BRICK_HEIGHT == 640
BRICK_HUD == 80

\* The rows random(0, 10) > 3 is let to draw for the twelve columns.
BrickDraws == { { }, { 3, 7 } }

\* Brick::spawnRow, row being the new top row drawn.
BrickSpawnRow(bricks, row) ==
    [ y \in 0 .. BRICK_ROWS - 1 |-> IF y = 0 THEN row ELSE bricks[y - 1] ]

\* Brick::init at millis() = t, r1, r2 and r3 being the rows drawn.
BrickInit(t, r1, r2, r3) ==
    [ kind |-> "Brick", ticks |-> 0, over |-> FALSE,
      paddleX |-> 540, ballX |-> 640, ballY |-> 540,
      ballVx |-> 15, ballVy |-> 0 - 15,
      speedMs |-> 5000, lastRowTime |-> t,
      bricks |-> BrickSpawnRow(BrickSpawnRow(BrickSpawnRow(
                    [ y \in 0 .. BRICK_ROWS - 1 |-> { } ], r1), r2), r3) ]

\* (int)(a / d) for d > 0: the quotient, cut towards zero.
BrickCut(a, d) == IF a >= 0 THEN a \div d ELSE 0 - ((0 - a) \div d)

\* The paddle follows LEFT and RIGHT and stays on the screen.
BrickPaddle(c) ==
    LET p0 == c.gameVars.paddleX
        p1 == IF isPressed(c.buttons, LEFT) THEN p0 - 30 ELSE p0
        p2 == IF isPressed(c.buttons, RIGHT) THEN p1 + 30 ELSE p1
        p3 == IF p2 < 0 THEN 0 ELSE p2
    IN  [ c EXCEPT !.gameVars.paddleX =
            IF p3 > BRICK_WIDTH - BRICK_PADDLE_W
            THEN BRICK_WIDTH - BRICK_PADDLE_W ELSE p3 ]

\* The ball moves, then turns at the side walls and under the HUD, and is
\* lost below the screen.
BrickWalls(c) ==
    LET c1 == [ c EXCEPT !.gameVars.ballX = @ + c.gameVars.ballVx,
                         !.gameVars.ballY = @ + c.gameVars.ballVy ]
        c2 == IF c1.gameVars.ballX <= 0 \/ c1.gameVars.ballX >= BRICK_WIDTH
              THEN sfxClick([ c1 EXCEPT !.gameVars.ballVx = 0 - @ ])
              ELSE c1
        c3 == IF c2.gameVars.ballY <= BRICK_HUD
              THEN sfxClick([ c2 EXCEPT !.gameVars.ballVy = 0 - @ ])
              ELSE c2
    IN  IF c3.gameVars.ballY > BRICK_HEIGHT
        THEN SetGameOver(sfxCollision(c3), "Brick.ball")
        ELSE c3

\* The ball on the paddle goes up, its side speed set by where it fell.
BrickPaddleHit(c) ==
    LET g == c.gameVars
    IN  IF /\ g.ballY >= BRICK_HEIGHT - 30 - 20
           /\ g.ballY < BRICK_HEIGHT - 20
           /\ g.ballX >= g.paddleX
           /\ g.ballX <= g.paddleX + BRICK_PADDLE_W
        THEN sfxClick([ c EXCEPT
               !.gameVars.ballVy = IF @ > 0 THEN 0 - @ ELSE @,
               !.gameVars.ballVx =
                   (2 * (g.ballX - g.paddleX) + 5) \div 10 - 20 ])
        ELSE c

\* The brick under the ball, if any, goes and turns the ball.
BrickHit(c) ==
    LET g == c.gameVars
        bx == BrickCut(g.ballX, BRICK_W)
        by == BrickCut(g.ballY - BRICK_HUD, BRICK_H)
    IN  IF /\ by >= 0 /\ by < BRICK_ROWS /\ bx >= 0 /\ bx < BRICK_COLS
           /\ bx \in g.bricks[by]
        THEN sfxScore(ScoreUp([ c EXCEPT
               !.gameVars.bricks[by] = @ \ { bx },
               !.gameVars.ballVy = 0 - @ ]))
        ELSE c

\* The loop over the bottom row from column x on: each brick found there
\* sets gameOver and sounds the collision.
RECURSIVE BrickBottom(_, _)
BrickBottom(c, x) ==
    IF x >= BRICK_COLS
    THEN c
    ELSE BrickBottom(IF x \in c.gameVars.bricks[BRICK_ROWS - 1]
                     THEN sfxCollision(SetGameOver(c, "Brick.row"))
                     ELSE c,
                     x + 1)

\* A faulty injection: the rows are shifted without a look at the bottom one.
BrickInject_NoCheck(c, row) ==
    IF c.now - c.gameVars.lastRowTime > c.gameVars.speedMs
    THEN LET c1 == Log([ c EXCEPT !.gameVars.lastRowTime = c.now ],
                       "Brick.spawnRow", 0)
         IN  [ c1 EXCEPT
                 !.gameVars.bricks = BrickSpawnRow(@, row),
                 !.gameVars.speedMs = IF @ > 1000 THEN @ - 50 ELSE @ ]
    ELSE c

\* The tail of Brick::update: the injection of a row, when its time has come.
BrickInject(c, row) ==
    IF c.now - c.gameVars.lastRowTime > c.gameVars.speedMs
    THEN LET c1 == BrickBottom([ c EXCEPT !.gameVars.lastRowTime = c.now ], 0)
             c2 == Log(c1, "Brick.spawnRow", 0)
         IN  [ c2 EXCEPT
                 !.gameVars.bricks = BrickSpawnRow(@, row),
                 !.gameVars.speedMs = IF @ > 1000 THEN @ - 50 ELSE @ ]
    ELSE c

\* Brick::update, row being the row drawn if one is injected.
BrickUpdate(c, row) ==
    BrickInject(BrickHit(BrickPaddleHit(BrickWalls(BrickPaddle(
        [ c EXCEPT !.gameVars.ticks = @ + 1 ])))), row)

\* The opening is still on.
BrickLed(g) == g.ticks < BrickLedPasses

\* A Playing tick of a Brick Breaker session: the poll of the buttons and
\* the call of Brick::update. In the opening no button is held and the
\* passes are the longer gap apart.
BrickTick ==
    /\ gameVars.kind = "Brick"
    /\ ~gameVars.over
    /\ gameVars.ticks < BrickLedPasses + BrickTicks
    /\ \E held \in IF BrickLed(gameVars)
                   THEN { { } } ELSE SUBSET { LEFT, RIGHT },
          dt \in IF BrickLed(gameVars)
                 THEN { 2 * BrickDt } ELSE { BrickDt, 2 * BrickDt } :
         LET c0 == inputUpdate([ Ctx EXCEPT !.calls = << >> ], dt, held)
         IN  \E row \in IF c0.now - gameVars.lastRowTime > gameVars.speedMs
                        THEN BrickDraws ELSE { { } } :
               Becomes([ BrickUpdate(c0, row) EXCEPT !.presses = presses ])

InitBrick ==
    \E r1, r2, r3 \in BrickDraws :
       StartsAs(SessionStart(GAME_BRICK, BrickInit(0, r1, r2, r3)))
NextBrick == BrickTick
SpecBrick == InitBrick /\ [][NextBrick]_vars

\* -------------------------------------------------------------- Helicopter
\* y and vy are in twentieths of a pixel, the unit GRAVITY 0.15 and THRUST
\* -0.3 are whole numbers of; the float sums are off these by their rounding
\* only, so the comparisons with the cave are settled by the exact values
\* and one between equal values can fall either way (tie). offset is in
\* pixels, roof and floor are the 8-bit columns of the cave.
HeliTicks == 28        \* updates of a Helicopter session in a run
HeliDt == 20           \* milliseconds from one pass of loop() to the next

HELI_COLS == 17
HELI_GRAVITY == 3
HELI_THRUST == 6

\* The values random(-2, 3) is let to give.
HeliDraws == { -2, 2 }

\* Heli::init.
HeliInit ==
    [ kind |-> "Heli", ticks |-> 0, over |-> FALSE,
      y |-> 640, vy |-> 0, speed |-> 2, offset |-> 0,
      roof |-> [ i \in 0 .. HELI_COLS - 1 |-> 10 ],
      floor |-> [ i \in 0 .. HELI_COLS - 1 |-> 54 ] ]

\* A faulty minimum gap: a gap under 20 is left as drawn.
HeliGap_Unchecked(r, f, coin) == << r, f >>

\* The minimum gap: a gap under 20 is widened by 2, at the roof or at the
\* floor as random(0, 2) falls.
HeliGap(r, f, coin) ==
    IF f - r < 20
    THEN IF coin = 0 THEN << r - 2, f >> ELSE << r, f + 2 >>
    ELSE << r, f >>

\* The column generated next to the column << roof, floor >> = last, dr and
\* df being the two draws of random(-2, 3).
HeliGenerate(last, dr, df, coin) ==
    LET r0 == last[1] + dr
        f0 == last[2] + df
    IN  HeliGap(IF r0 < 8 THEN 8 ELSE r0, IF f0 > 63 THEN 63 ELSE f0, coin)

\* The scroll of Heli::update: every 8 pixels of offset the columns move up
\* by one and a new last column is generated and stored in its two bytes.
HeliScroll(c, dr, df, coin) ==
    LET g == c.gameVars
        o == g.offset + g.speed
    IN  IF o >= 8
        THEN LET col == HeliGenerate(<< g.roof[HELI_COLS - 1],
                                        g.floor[HELI_COLS - 1] >>,
                                     dr, df, coin)
             IN  [ ScoreUp(c) EXCEPT
                     !.gameVars.offset = o - 8,
                     !.gameVars.roof =
                         [ i \in 0 .. HELI_COLS - 1 |->
                             IF i < HELI_COLS - 1 THEN g.roof[i + 1]
                             ELSE col[1] % 256 ],
                     !.gameVars.floor =
                         [ i \in 0 .. HELI_COLS - 1 |->
                             IF i < HELI_COLS - 1 THEN g.floor[i + 1]
                             ELSE col[2] % 256 ] ]
        ELSE [ c EXCEPT !.gameVars.offset = o ]

\* Heli::update.
HeliUpdate(c, dr, df, coin, tie) ==
    LET v0 == c.gameVars.vy
        v1 == IF isPressed(c.buttons, SELECT) \/ isPressed(c.buttons, UP)
              THEN v0 - HELI_THRUST ELSE v0
        v2 == v1 + HELI_GRAVITY
        c1 == HeliScroll([ c EXCEPT !.gameVars.ticks = @ + 1,
                                    !.gameVars.vy = v2,
                                    !.gameVars.y = @ + v2 ],
                         dr, df, coin)
        g == c1.gameVars
        col == 20 \div 8
    IN  IF \/ g.y < 20 * g.roof[col]
           \/ g.y + 120 > 20 * g.floor[col]
           \/ tie /\ (g.y = 20 * g.roof[col] \/ g.y + 120 = 20 * g.floor[col])
        THEN SetGameOver(sfxCollision(c1), "Heli")
        ELSE c1

\* The pins of a pilot who holds the machine near the middle of the screen.
HeliHover(g) == IF g.y > 640 THEN { SELECT } ELSE { }

\* A Playing tick of a Helicopter session: the poll of the buttons and the
\* call of Heli::update.
HeliTick ==
    /\ gameVars.kind = "Heli"
    /\ ~gameVars.over
    /\ gameVars.ticks < HeliTicks
    /\ LET c0 == inputUpdate([ Ctx EXCEPT !.calls = << >> ], HeliDt,
                             HeliHover(gameVars))
           scrolls == gameVars.offset + gameVars.speed >= 8
       IN  \E dr, df \in IF scrolls THEN HeliDraws ELSE { 0 },
              coin \in IF scrolls THEN 0 .. 1 ELSE { 0 }, tie \in BOOLEAN :
             Becomes([ HeliUpdate(c0, dr, df, coin, tie) EXCEPT
                         !.presses = presses ])

InitHeli == StartsAs(SessionStart(GAME_HELI, HeliInit))
NextHeli == HeliTick
SpecHeli == InitHeli /\ [][NextHeli]_vars

\* ----------------------------------------------------------- Tunnel Runner
\* playerX is in pixels (it moves by 2, which floats hold exactly);
\* leftWall and rightWall are the 8-bit rows of the tunnel, and l and r the
\* two ints the last scroll step computed for the top row (the initial row
\* before the first step).
TunnelLedSteps == 22   \* passes of a led session, a scroll step in each
TunnelTicks == 2       \* passes of a session played freely
TunnelDt == 101        \* milliseconds from one pass of loop() to the next

TUNNEL_ROWS == 16
TUNNEL_WIDTH == 128

\* The values random(-4, 5) is let to give.
TunnelDraws == { -4, 0, 4 }

\* Tunnel::init at millis() = t.
TunnelInit(t) ==
    [ kind |-> "Tunnel", ticks |-> 0, over |-> FALSE, play |-> "free",
      playerX |-> 64, speedMs |-> 100, lastMove |-> t,
      leftWall |-> [ i \in 0 .. TUNNEL_ROWS - 1 |-> 20 ],
      rightWall |-> [ i \in 0 .. TUNNEL_ROWS - 1 |-> TUNNEL_WIDTH - 20 ],
      l |-> 20, r |-> TUNNEL_WIDTH - 20 ]

\* A faulty generation: the new row is the drawn one, whatever it is.
TunnelGenerate_Unchecked(top, dl, dr) == << top[1] + dl, top[2] + dr >>

\* The row generated above the row << left, right >> = top, dl and dr being
\* the two draws of random(-4, 5).
TunnelGenerate(top, dl, dr) ==
    LET l0 == top[1] + dl
        r0 == top[2] + dr
        l1 == IF l0 < 0 THEN 0 ELSE l0
        r1 == IF r0 > TUNNEL_WIDTH THEN TUNNEL_WIDTH ELSE r0
    IN  IF r1 - l1 < 20 THEN << l1 - 2, r1 + 2 >> ELSE << l1, r1 >>

\* The scroll step of Tunnel::update, when its time has come: the rows move
\* down by one and the new top row is stored in its two bytes.
TunnelScroll(c, dl, dr) ==
    LET g == c.gameVars
    IN  IF c.now - g.lastMove > g.speedMs
        THEN LET row == TunnelGenerate(<< g.leftWall[0], g.rightWall[0] >>,
                                       dl, dr)
             IN  [ ScoreUp(c) EXCEPT
                     !.gameVars.lastMove = c.now,
                     !.gameVars.l = row[1],
                     !.gameVars.r = row[2],
                     !.gameVars.leftWall =
                         [ i \in 0 .. TUNNEL_ROWS - 1 |->
                             IF i > 0 THEN g.leftWall[i - 1]
                             ELSE row[1] % 256 ],
                     !.gameVars.rightWall =
                         [ i \in 0 .. TUNNEL_ROWS - 1 |->
                             IF i > 0 THEN g.rightWall[i - 1]
                             ELSE row[2] % 256 ],
                     !.gameVars.speedMs = IF @ > 20 THEN @ - 1 ELSE @ ]
        ELSE c

\* Tunnel::update.
TunnelUpdate(c, dl, dr) ==
    LET x0 == c.gameVars.playerX
        x1 == IF isPressed(c.buttons, LEFT) THEN x0 - 2 ELSE x0
        x2 == IF isPressed(c.buttons, RIGHT) THEN x1 + 2 ELSE x1
        c1 == TunnelScroll([ c EXCEPT !.gameVars.ticks = @ + 1,
                                      !.gameVars.playerX = x2 ], dl, dr)
        g == c1.gameVars
        pRow == TUNNEL_ROWS - 2
    IN  IF g.playerX < g.leftWall[pRow] \/ g.playerX + 4 > g.rightWall[pRow]
        THEN SetGameOver(sfxCollision(c1), "Tunnel")
        ELSE c1

\* The led play is still on.
TunnelLed(g) == g.play # "free" /\ g.ticks < TunnelLedSteps

\* The draws of a led pass: the walls close in, or both go left.
TunnelLead(g) == IF g.play = "narrow" THEN << 4, -4 >> ELSE << -4, -4 >>

\* A Playing tick of a Tunnel Runner session: the poll of the buttons and
\* the call of Tunnel::update. In a led session no button is held.
TunnelTick ==
    /\ gameVars.kind = "Tunnel"
    /\ ~gameVars.over
    /\ gameVars.ticks < TunnelTicks + IF gameVars.play = "free"
                                      THEN 0 ELSE TunnelLedSteps
    /\ \E held \in IF TunnelLed(gameVars)
                   THEN { { } } ELSE SUBSET { LEFT, RIGHT },
          dl \in IF TunnelLed(gameVars)
                 THEN { TunnelLead(gameVars)[1] } ELSE TunnelDraws,
          dr \in IF TunnelLed(gameVars)
                 THEN { TunnelLead(gameVars)[2] } ELSE TunnelDraws :
         LET c0 == inputUpdate([ Ctx EXCEPT !.calls = << >> ], TunnelDt, held)
         IN  Becomes([ TunnelUpdate(c0, dl, dr) EXCEPT !.presses = presses ])

InitTunnel ==
    \E p \in { "free", "narrow", "left" } :
       StartsAs(SessionStart(GAME_TUNNEL, [ TunnelInit(0) EXCEPT !.play = p ]))
NextTunnel == TunnelTick
SpecTunnel == InitTunnel /\ [][NextTunnel]_vars

\* ------------------------------------------------------------ Doodle Jump
\* Heights and the vertical speed are kept in fifths of a pixel (GRAVITY is
\* one fifth, JUMP twenty), the x of the player and of a platform in
\* pixels. The floats of the program carry rounding errors of the sums, so
\* a comparison between two values that are equal here may fall either way:
\* `ties` names the comparisons that fall on the side of "true" in a pass.
DoodleLedTicks == 30   \* updates of a session in which no button is held
DoodleTicks == 3       \* updates of a session played freely
DoodleDt == 20         \* milliseconds from one pass of loop() to the next

DOODLE_PLATS == 10
DOODLE_GRAVITY == 1
DOODLE_JUMP == -20

\* The values random(0, 118) and random(-10, 0) are let to give.
DoodleXs == { 10, 60 }
DoodleYs == { -10, -1 }
DoodleTies == { "pos", "speed", "score" }

\* Doodle::init, a and b being the draws for the platforms of even and of
\* odd index (ticks, over and play are the session's bookkeeping).
DoodleInit(a, b) ==
    [ kind |-> "Doodle", ticks |-> 0, over |-> FALSE, play |-> "free",
      playerX |-> 64, playerY |-> 160, playerVy |-> 0,
      cameraY |-> 0, maxScoreY |-> 0,
      plats |-> [ i \in 0 .. DOODLE_PLATS - 1 |->
                    [ x |-> IF i % 2 = 0 THEN a ELSE b,
                      y |-> 5 * (64 - i * 15) ] ] ]

\* a > b as the floats may decide it.
DoodleAbove(a, b, ties) == a > b \/ (a = b /\ "pos" \in ties)

\* score = maxScoreY / 10, cut to an unsigned long: a sum that stands on a
\* multiple of 10 may lie just below it.
DoodleScore(maxScoreY, ties) ==
    IF maxScoreY % 50 = 0 /\ maxScoreY > 0 /\ "score" \in ties
    THEN maxScoreY \div 50 - 1
    ELSE maxScoreY \div 50

\* The camera follow of Doodle::update: above the middle of the screen the
\* player is put back on it, the climb is added to the score's height, the
\* score is assigned and the platforms move down; one that leaves the screen
\* comes back at the top, at << rx, ry >>. (A player a rounding error above
\* the middle moves everything by that error: nothing changes.)
DoodleCamera(c, rx, ry, ties) ==
    LET g == c.gameVars
        diff == 160 - g.playerY
    IN  IF g.playerY < 160
        THEN [ c EXCEPT
                 !.score = DoodleScore(g.maxScoreY + diff, ties),
                 !.calls = Append(@, << "score",
                             DoodleScore(g.maxScoreY + diff, ties) >>),
                 !.gameVars.playerY = 160,
                 !.gameVars.cameraY = @ + diff,
                 !.gameVars.maxScoreY = @ + diff,
                 !.gameVars.plats =
                     [ i \in 0 .. DOODLE_PLATS - 1 |->
                         IF DoodleAbove(g.plats[i].y + diff, 320, ties)
                         THEN [ x |-> rx, y |-> 5 * ry ]
                         ELSE [ g.plats[i] EXCEPT !.y = @ + diff ] ] ]
        ELSE c

\* The player's feet are in platform p.
DoodleOn(g, p, ties) ==
    /\ g.playerX + 4 > p.x
    /\ g.playerX < p.x + 10
    /\ DoodleAbove(g.playerY + 40, p.y, ties)
    /\ DoodleAbove(p.y + 40, g.playerY + 40, ties)

\* The collision loop of Doodle::update from platform i on: every platform
\* under the feet sets the speed to JUMP and asks for a click.
RECURSIVE DoodleBounce(_, _, _)
DoodleBounce(c, i, ties) ==
    IF i = DOODLE_PLATS THEN c
    ELSE IF DoodleOn(c.gameVars, c.gameVars.plats[i], ties)
         THEN DoodleBounce(sfxClick([ c EXCEPT !.gameVars.playerVy =
                                                   DOODLE_JUMP ]),
                           i + 1, ties)
         ELSE DoodleBounce(c, i + 1, ties)

\* Doodle::update.
DoodleUpdate(c, rx, ry, ties) ==
    LET x0 == c.gameVars.playerX
        x1 == IF isPressed(c.buttons, LEFT) THEN x0 - 2 ELSE x0
        x2 == IF isPressed(c.buttons, RIGHT) THEN x1 + 2 ELSE x1
        x3 == IF x2 < -4 THEN 128 ELSE x2
        x4 == IF x3 > 128 THEN -4 ELSE x3
        v1 == c.gameVars.playerVy + DOODLE_GRAVITY
        c1 == DoodleCamera([ Log(c, "update", "Doodle") EXCEPT
                                      !.gameVars.ticks = @ + 1,
                                      !.gameVars.playerX = x4,
                                      !.gameVars.playerVy = v1,
                                      !.gameVars.playerY = @ + v1 ],
                           rx, ry, ties)
        c2 == IF v1 > 0 \/ (v1 = 0 /\ "speed" \in ties)
              THEN DoodleBounce(c1, 0, ties) ELSE c1
    IN  IF DoodleAbove(c2.gameVars.playerY, 320, ties)
        THEN SetGameOver(sfxCollision(c2), "Doodle")
        ELSE c2

\* A Playing tick of a Doodle Jump session: the poll of the buttons and the
\* call of Doodle::update. In a led session no button is held.
DoodleTick ==
    /\ gameVars.kind = "Doodle"
    /\ ~gameVars.over
    /\ gameVars.ticks < IF gameVars.play = "free"
                        THEN DoodleTicks ELSE DoodleLedTicks
    /\ \E held \in IF gameVars.play = "free"
                   THEN SUBSET { LEFT, RIGHT } ELSE { { } },
          rx \in DoodleXs, ry \in DoodleYs, ties \in SUBSET DoodleTies :
         LET c0 == inputUpdate([ Ctx EXCEPT !.calls = << >> ], DoodleDt, held)
         IN  Becomes([ DoodleUpdate(c0, rx, ry, ties) EXCEPT
                         !.presses = presses ])

InitDoodle ==
    \E a, b \in DoodleXs, p \in { "free", "still" } :
       StartsAs(SessionStart(GAME_DOODLE,
                             [ DoodleInit(a, b) EXCEPT !.play = p ]))
NextDoodle == DoodleTick
SpecDoodle == InitDoodle /\ [][NextDoodle]_vars

\* The console and, beside it, the sessions of the one module that assigns
\* the score instead of adding to it.
TickConsole == gameVars = NoGame /\ Next
InitScore == Init \/ InitDoodle
NextScore == TickConsole \/ DoodleTick
SpecScore == InitScore /\ [][NextScore]_vars

\* ============================================================== properties
\* Reading the record of a tick.
Called(log, op) == \E k \in 1 .. Len(log) : log[k][1] = op
CalledWith(log, op, arg) ==
    \E k \in 1 .. Len(log) : log[k][1] = op /\ log[k][2] = arg
Count(log, op) == Cardinality({ k \in 1 .. Len(log) : log[k][1] = op })
First(log, op) == CHOOSE k \in 1 .. Len(log) :
                    log[k][1] = op /\ \A j \in 1 .. (k - 1) : log[j][1] # op

\* The namespace a menu title names.
ModuleNamed(title) ==
    CASE title = "Flappy Bird"   -> "Flappy"
      [] title = "Snake"         -> "Snake"
      [] title = "Brick Breaker" -> "Brick"
      [] title = "Pong"          -> "Pong"
      [] title = "Knife Thrower" -> "Knife"
      [] title = "Mario Runner"  -> "Mario"
      [] title = "Stack Builder" -> "Stack"
      [] title = "Doodle Jump"   -> "Doodle"
      [] title = "Dodge Pixels"  -> "Dodge"
      [] title = "Tunnel Run"    -> "Tunnel"
      [] title = "Tetris"        -> "Tetris"
      [] title = "Helicopter"    -> "Heli"
TitledModule(i) == ModuleNamed(gameTitles[i + 1])

\* ---------------------------------------------------------------------- C1
\* The mode changes in a tick only along the five listed transitions, each
\* with its trigger in that tick.
C1_ModeStep ==
    /\ currentState' \in GameState
    /\ currentState' # currentState =>
         \/ /\ currentState = STATE_MENU /\ currentState' = STATE_PLAYING
            /\ buttons'[SELECT].justPressed
         \/ /\ currentState = STATE_PLAYING /\ currentState' = STATE_PAUSED
            /\ CalledWith(calls', "isLongPressed", 1)
         \/ /\ currentState = STATE_PAUSED /\ currentState' = STATE_PLAYING
            /\ buttons'[SELECT].justPressed
         \/ /\ currentState = STATE_PAUSED /\ currentState' = STATE_MENU
            /\ buttons'[LEFT].justPressed
         \/ /\ currentState = STATE_PLAYING /\ currentState' = STATE_MENU
            /\ Called(calls', "gameOver")
    /\ currentState = STATE_MENU /\ buttons'[SELECT].justPressed
         => currentState' = STATE_PLAYING
    /\ CalledWith(calls', "isLongPressed", 1)
         => currentState = STATE_PLAYING /\ currentState' = STATE_PAUSED
    /\ currentState = STATE_PAUSED /\ buttons'[LEFT].justPressed
         => currentState' = STATE_MENU
    /\ currentState = STATE_PAUSED /\ buttons'[SELECT].justPressed
                                   /\ ~buttons'[LEFT].justPressed
         => currentState' = STATE_PLAYING
    /\ Called(calls', "gameOver")
         => currentState = STATE_PLAYING /\ currentState' = STATE_MENU

\* C1: the engine mode is always one of Menu, Playing, Paused; it starts in
\* Menu; the only transitions are Menu to Playing when SELECT is just-pressed
\* in the menu, Playing to Paused when the SELECT long-press fires, Paused to
\* Playing when SELECT is just-pressed, Paused to Menu when LEFT is
\* just-pressed (LEFT wins over SELECT in the same tick), and Playing to Menu
\* when the active module's update reports game-over.
C1_ModeMachine == currentState = STATE_MENU /\ [][C1_ModeStep]_vars

\* A tick of the pause screen has just left for the menu: the session went
\* Menu, Playing, Paused, Menu.
C1_Witness ==
    /\ currentState = STATE_MENU
    /\ sessions > 0
    /\ Called(calls, "updatePause")
    /\ buttons[LEFT].justPressed

\* ---------------------------------------------------------------------- C2
\* The steps of the walk: DOWN moves the cursor one entry down from 0, 1
\* and 2; SELECT with the cursor on 3 starts Pong; game over in that
\* session returns to the menu with the cursor still on 3.
C2_WalkStep ==
    /\ currentState = STATE_MENU /\ sessions = 0 /\ menuIndex < 3
                                 /\ buttons'[DOWN].justPressed
         => menuIndex' = menuIndex + 1
    /\ currentState = STATE_MENU /\ sessions = 0 /\ menuIndex' = 3
                                 /\ buttons'[SELECT].justPressed
         => /\ currentState' = STATE_PLAYING
            /\ score' = 0
            /\ selectedGame' = 3
            /\ CalledWith(calls', "init", "Pong")
            /\ Count(calls', "init") = 1
            /\ mem'["Pong"] = MemStart
    /\ currentState = STATE_PLAYING /\ selectedGame = 3
                                    /\ Called(calls', "gameOver")
         => /\ CalledWith(calls', "update", "Pong")
            /\ currentState' = STATE_MENU
            /\ menuIndex' = 3

\* C2: from Menu with menuIndex 0, three ticks with DOWN just-pressed bring
\* menuIndex to 3; a tick with SELECT just-pressed then sets the mode to
\* Playing, the score to 0 and runs the init of game 3 (Pong); when that
\* module's update later reports game-over the mode is Menu and menuIndex
\* is still 3.
C2_Walk ==
    /\ currentState = STATE_MENU /\ menuIndex = 0
    /\ [][C2_WalkStep]_vars

\* The end of the walk: three DOWN presses and one SELECT press made, Pong
\* was initialised and has just reported game over.
C2_Witness ==
    /\ presses = 4
    /\ sessions = 1
    /\ mem["Pong"].inited
    /\ Called(calls, "gameOver")
    /\ currentState = STATE_MENU
    /\ menuIndex = 3
    /\ selectedGame = 3

\* ---------------------------------------------------------------------- C3
\* A tick of the menu in which SELECT is just-pressed; i is the entry the
\* cursor is on when SELECT is handled (after that tick's UP and DOWN).
C3_StartStep ==
    currentState = STATE_MENU /\ buttons'[SELECT].justPressed
      => LET i == menuIndex'
         IN  /\ score' = 0
             /\ selectedGame' = i
             /\ currentState' = STATE_PLAYING
             /\ Count(calls', "init") = 1
             /\ CalledWith(calls', "init", TitledModule(i))
             /\ mem'[TitledModule(i)] = MemStart
             /\ \A m \in Modules \ { TitledModule(i) } : mem'[m] = mem[m]

\* Every module update and draw of a tick is that of the selected game,
\* and the selected game does not change during a session.
C3_DispatchStep ==
    /\ \A k \in 1 .. Len(calls') :
         calls'[k][1] \in { "update", "draw" }
           => calls'[k][2] = TitledModule(selectedGame')
    /\ currentState # STATE_MENU => selectedGame' = selectedGame
    /\ Called(calls', "update") => selectedGame' = selectedGame

\* C3: when SELECT is just-pressed in Menu with the cursor on entry i, that
\* tick sets the score to 0, makes entry i the selected game, calls the init
\* of exactly the module named by title i and of no other, and sets the mode
\* to Playing; every update and draw of the session goes to that module.
C3_SelectStartsTitledGame == [][C3_StartStep /\ C3_DispatchStep]_vars

\* A session of the game reached by wrapping upward (Helicopter, entry 11)
\* has been updated and drawn.
C3_Witness ==
    /\ currentState = STATE_PLAYING
    /\ selectedGame = 11
    /\ CalledWith(calls, "update", "Heli")
    /\ CalledWith(calls, "draw", "Heli")

\* ---------------------------------------------------------------------- C4
\* The entry above and the entry below, on the ring of 12 entries.
Above(i) == (i + 11) % 12
Below(i) == (i + 1) % 12

\* The cursor after a tick that began in mode st with cursor i, given the
\* UP and DOWN edges of that tick's poll.
C4_Moved(st, i, up, down) ==
    IF st # STATE_MENU THEN i
    ELSE LET j == IF up THEN Above(i) ELSE i
         IN  IF down THEN Below(j) ELSE j

C4_CursorStep ==
    /\ menuIndex' \in 0 .. 11
    /\ menuIndex' = C4_Moved(currentState, menuIndex,
                             buttons'[UP].justPressed,
                             buttons'[DOWN].justPressed)
    /\ currentState' # STATE_MENU => menuIndex' = selectedGame'

\* C4: menuIndex is always in 0..11; it changes only in Menu ticks, where UP
\* just-pressed moves it one up with 0 wrapping to 11 and DOWN just-pressed
\* one down with 11 wrapping to 0; Playing ticks, Paused ticks and the
\* game-over return leave it unchanged; while a session runs it equals the
\* index of the selected game.
C4_MenuCursor == menuIndex \in 0 .. 11 /\ [][C4_CursorStep]_vars

\* The cursor wrapped upward from 0 to 11 in an earlier tick and has just
\* come back down from 11 to 0.
C4_Witness ==
    /\ presses = 2
    /\ currentState = STATE_MENU
    /\ buttons[DOWN].justPressed
    /\ ~buttons[UP].justPressed
    /\ menuIndex = 0

\* ---------------------------------------------------------------------- C5
\* The cue requested after the module reported game over, in the same tick.
C5_CueAfterGameOver(log) ==
    \E k \in 1 .. Len(log) :
      /\ log[k][1] = "playTone" /\ log[k][2] = SfxGameOverTone[1]
      /\ First(log, "gameOver") < k

C5_GameOverStep ==
    /\ Called(calls', "gameOver")
         => /\ currentState = STATE_PLAYING
            /\ C5_CueAfterGameOver(calls')
            /\ currentState' = STATE_MENU
            /\ Count(calls', "update") = 1
    /\ Called(calls', "update") => currentState = STATE_PLAYING
    /\ currentState = STATE_MENU /\ currentState' # STATE_MENU
         => Called(calls', "startGame") /\ Called(calls', "init")

\* C5: if the active module's update sets game-over during a Playing tick,
\* the engine requests the game-over cue and sets the mode to Menu within
\* the same tick; a module update is only ever called in a tick that begins
\* in Playing, and the menu is only left by starting a game, so that
\* module's update is not called again until a game is started again.
C5_GameOverReturns == [][C5_GameOverStep]_vars

\* A session has just ended by game over after a score was made.
C5_Witness ==
    /\ Called(calls, "gameOver")
    /\ CalledWith(calls, "playTone", SfxGameOverTone[1])
    /\ currentState = STATE_MENU
    /\ score > 0

\* ---------------------------------------------------------------------- C6
C6_EdgeStep ==
    \A b \in Buttons :
      /\ buttons'[b].justPressed <=> (b \in pins' /\ b \notin pins)
      /\ buttons'[b].pressed <=> b \in pins'

\* C6: isJustPressed is true for exactly one poll per transition of the
\* button from inactive to active: after the poll that first reads it
\* active, and not after any later poll while it stays held; it is never
\* true without such a transition.
C6_JustPressedOnce ==
    /\ \A b \in Buttons : ~buttons[b].justPressed /\ b \notin pins
    /\ [][C6_EdgeStep]_vars

\* A button is held over a later poll and its edge flag is down again.
C6_Witness ==
    /\ DOWN \in pins
    /\ buttons[DOWN].pressed
    /\ ~buttons[DOWN].justPressed
    /\ now > buttons[DOWN].pressTime

\* ---------------------------------------------------------------------- C7
\* The time of the poll of the tick just made (a game over delays after it).
C7_PollTime ==
    IF Called(calls', "delay") THEN now' - GAME_OVER_DELAY ELSE now'

\* The poll of the tick just made found SELECT held for more than 600 ms.
C7_HeldPast ==
    /\ buttons'[SELECT].pressed
    /\ C7_PollTime - buttons'[SELECT].pressTime > 600

\* The long press was raised in the tick just made.
C7_Raised == CalledWith(calls', "isLongPressed", 1)

\* The press the poll found is the one the previous poll found.
C7_SamePress == buttons[SELECT].pressed /\ buttons'[SELECT].pressed

\* The long press is raised by the first poll that finds SELECT held for
\* more than 600 ms, in whatever mode, and once per press.
C7_AnyModeStep ==
    /\ C7_HeldPast => buttons'[SELECT].longPressHandled
    /\ C7_Raised => /\ C7_HeldPast
                    /\ ~(C7_SamePress /\ buttons[SELECT].longPressHandled)

\* The statement as made: while SELECT is held, the long press is raised
\* exactly once, at the first poll where the held duration exceeds 600 ms.
C7_RaisedWheneverHeld == [][C7_AnyModeStep]_vars

C7_PlayingStep ==
    /\ C7_Raised => /\ currentState = STATE_PLAYING
                    /\ C7_HeldPast
                    /\ ~(C7_SamePress /\ buttons[SELECT].longPressHandled)
    /\ currentState = STATE_PLAYING /\ C7_HeldPast
                                    /\ ~buttons[SELECT].longPressHandled
         => C7_Raised
    /\ buttons'[SELECT].longPressHandled
         = IF buttons'[SELECT].justPressed THEN FALSE
           ELSE buttons[SELECT].longPressHandled \/ C7_Raised

\* C7 (amended): while SELECT is held continuously the long press is raised
\* at most once per press and only in a tick that begins in Playing: at the
\* first poll in Playing where the held duration exceeds 600 ms (exactly
\* 600 ms does not fire), and never again on a later poll of that press
\* until SELECT is released and pressed again.
C7_RaisedOnceWhilePlaying == [][C7_PlayingStep]_vars

\* The press that paused the game is still held at a later poll, and
\* nothing was raised in that tick.
C7_Witness ==
    /\ currentState = STATE_PAUSED
    /\ Called(calls, "updatePause")
    /\ buttons[SELECT].pressed
    /\ buttons[SELECT].longPressHandled
    /\ now - buttons[SELECT].pressTime > 600

\* ---------------------------------------------------------------------- C8
C8_FreezeStep ==
    /\ currentState = STATE_PAUSED
         => /\ ~Called(calls', "init")
            /\ ~Called(calls', "update")
            /\ mem' = mem
            /\ score' = score
    /\ CalledWith(calls', "isLongPressed", 1)
         => /\ ~Called(calls', "update")
            /\ mem' = mem

\* C8: while the mode is Paused no module init or update is called, and the
\* variables of every game module and the score keep the values they had
\* when the pause was entered; the tick in which the long press fires runs
\* no game update.
C8_PauseFreezes == [][C8_FreezeStep]_vars

\* A game that has run and scored sits paused, a whole tick of the pause
\* screen behind it.
C8_Witness ==
    /\ currentState = STATE_PAUSED
    /\ Called(calls, "updatePause")
    /\ mem[TitledModule(selectedGame)].frames > 0
    /\ score > 0

\* ---------------------------------------------------------------------- C9
C9_TickStep ==
    /\ Count(calls', "input.update") = 1
    /\ Count(calls', "engine.update") = 1
    /\ Count(calls', "engine.draw") = 1
    /\ Count(calls', "display") = 1
    /\ First(calls', "input.update") = 1
    /\ First(calls', "input.update") < First(calls', "engine.update")
    /\ First(calls', "engine.update") < First(calls', "engine.draw")
    /\ First(calls', "engine.draw") < First(calls', "display")
    /\ First(calls', "display") = Len(calls')
    /\ Count(calls', "update") <= 1
    /\ Called(calls', "update")
         => /\ currentState = STATE_PLAYING
            /\ CalledWith(calls', "update", TitledModule(selectedGame))
            /\ First(calls', "engine.update") < First(calls', "update")
            /\ First(calls', "update") < First(calls', "engine.draw")

\* C9: every tick performs, in this order and each exactly once, the input
\* poll, the engine update and the engine draw with the flush of the frame;
\* it makes at most one module update call, only when the mode is Playing
\* at the start of the engine update, and only that of the selected game.
C9_TickOrder == [][C9_TickStep]_vars

\* A tick that updated the game and then ended the session.
C9_Witness ==
    /\ Called(calls, "update")
    /\ Called(calls, "gameOver")
    /\ Called(calls, "drawMenu")

\* --------------------------------------------------------------------- C10
\* The mute flag just before entry k of the record of a tick that began
\* with the flag at m0.
C10_MutedBefore(log, k, m0) ==
    LET n == Cardinality({ j \in 1 .. (k - 1) : log[j][1] = "toggleMute" })
    IN  IF n % 2 = 1 THEN ~m0 ELSE m0

C10_MuteStep ==
    /\ \A k \in 1 .. Len(calls') :
         /\ calls'[k][1] = "tone" => ~C10_MutedBefore(calls', k, muted)
         /\ calls'[k][1] = "toggleMute" /\ ~C10_MutedBefore(calls', k, muted)
              => k < Len(calls') /\ calls'[k + 1][1] = "noTone"
    /\ muted' = C10_MutedBefore(calls', Len(calls') + 1, muted)
    /\ muted' => ~tonePlaying'

\* C10: no tone is ever started while the mute flag is set; toggleMute
\* flips the flag and, when the flag becomes set, stops any sounding tone;
\* so whenever muted is true the sink is silent.
C10_MutedIsSilent == (muted => ~tonePlaying) /\ [][C10_MuteStep]_vars

\* A cue started in an earlier tick was cut by muting, and the click of
\* the muting tick was requested and not started.
C10_Witness ==
    /\ muted
    /\ sessions > 0
    /\ Called(calls, "toggleMute")
    /\ Called(calls, "noTone")
    /\ CalledWith(calls, "playTone", SfxClickTone[1])
    /\ ~Called(calls, "tone")

\* --------------------------------------------------------------------- C11
\* The tick just made had a mute trigger: LEFT or RIGHT just-pressed in a
\* tick that began in Menu, or RIGHT just-pressed in one that began Paused.
C11_Trigger ==
    \/ /\ currentState = STATE_MENU
       /\ buttons'[LEFT].justPressed \/ buttons'[RIGHT].justPressed
    \/ /\ currentState = STATE_PAUSED
       /\ buttons'[RIGHT].justPressed

C11_MuteStep ==
    /\ C11_Trigger => muted' = ~muted /\ Count(calls', "toggleMute") = 1
    /\ ~C11_Trigger => muted' = muted /\ Count(calls', "toggleMute") = 0

\* C11: the mute flag changes only in a tick where LEFT or RIGHT is
\* just-pressed in Menu or RIGHT is just-pressed in Paused, and then it
\* flips exactly once; starting a game, a module update, pausing, resuming,
\* exiting to the menu and game over leave it unchanged, so it persists
\* across game sessions.
C11_MuteOnlyByUser == [][C11_MuteStep]_vars

\* The sound was muted in the menu, a game was started and has just ended
\* by game over: the flag is still set.
C11_Witness ==
    /\ muted
    /\ sessions > 0
    /\ Called(calls, "gameOver")
    /\ currentState = STATE_MENU

\* --------------------------------------------------------------------- C12
\* The tick just made began in Paused with LEFT just-pressed.
C12_Exit == currentState = STATE_PAUSED /\ buttons'[LEFT].justPressed

C12_ToneAfterStop(log) ==
    \E k \in 1 .. Len(log) :
      /\ log[k][1] = "tone"
      /\ \E j \in 1 .. (k - 1) : log[j][1] = "noTone"
      /\ \A j \in (k + 1) .. Len(log) : log[j][1] # "noTone"

C12_ExitStep ==
    C12_Exit => /\ currentState' = STATE_MENU
                /\ Called(calls', "noTone")
                /\ tonePlaying' <=> ~muted'
                /\ tonePlaying' => C12_ToneAfterStop(calls')

C13_Untouched ==
    /\ calls = << >>
    /\ sessions = 0
    /\ currentState = STATE_MENU
    /\ menuIndex = 0
    /\ score = 0
    /\ ~muted
    /\ buttons = InputInit

\* C13: if display initialisation fails at startup the program halts
\* forever: no tick is ever executed afterwards (no input poll, no engine
\* update, no draw), and the mode, menuIndex, the score and the mute flag
\* keep their initial values in every later state.
C13_HaltsForever ==
    /\ [](halted => C13_Untouched)
    /\ [][halted' = halted /\ (halted => UNCHANGED vars)]_vars

\* The halted console.
C13_Witness == halted /\ calls = << >> /\ currentState = STATE_MENU

\* --------------------------------------------------------------------- C14
\* The calls a draw step is made of.
C14_DrawCalls ==
    { "engine.draw", "draw", "drawMenu", "drawHUD", "drawPause", "display" }

\* C14: the draw step never mutates state: in every mode and for every
\* game, GameEngine::draw (the game's draw plus HUD, menu or pause overlay)
\* leaves the mode, menuIndex, the selected game, the score, the mute flag,
\* the input state and every module's memory unchanged.  Checked in every
\* reachable state: drawing it again changes nothing but the record of
\* calls, and in the tick that led to it nothing but drawing followed the
\* entry into GameEngine::draw.
C14_DrawIsReadOnly ==
    /\ [ draw(Ctx) EXCEPT !.calls = calls ] = Ctx
    /\ calls # << >> =>
         \A k \in First(calls, "engine.draw") .. Len(calls) :
           calls[k][1] \in C14_DrawCalls

\* A paused game that has run was drawn under the pause overlay.
C14_Witness ==
    /\ currentState = STATE_PAUSED
    /\ Called(calls, "draw")
    /\ Called(calls, "drawPause")
    /\ mem[TitledModule(selectedGame)].frames > 0

\* --------------------------------------------------------------------- C15
\* C15: for every game module, an update call that meets a terminal
\* condition sets game-over exactly once, and after setting it that call
\* makes no further meaningful state change: it does not change the score
\* and requests no further score or collision cue.  Read on the record of
\* the last update call.
C15_GameOverIsLast ==
    /\ Count(calls, "gameOver") <= 1
    /\ Called(calls, "gameOver") =>
         \A k \in (First(calls, "gameOver") + 1) .. Len(calls) :
           /\ calls[k][1] # "score"
           /\ calls[k][1] = "playTone" =>
                calls[k][2] \notin { SfxScoreTone[1], SfxCollisionTone[1] }

\* --------------------------------------------------------------------- C16
\* C16: for each of the 12 games, init followed immediately by draw reads
\* only fields and entity slots that this init call has written: no value
\* left from an earlier session and no never-written slot influences the
\* first frame, also when the game is started again after a session.
C16_FirstFrameReadsInit ==
    gameVars.kind = "FirstFrame" /\ gameVars.phase = "drawn"
      => \A s \in gameVars.reads : gameVars.tag[s] = "init"

\* Knife Thrower was started again after a session that left knives stuck:
\* the stale knives are in memory and the first frame does not read them.
C16_Witness ==
    /\ gameVars.kind = "FirstFrame"
    /\ gameVars.phase = "drawn"
    /\ gameVars.starts = 2
    /\ gameVars.shown = "Knife"
    /\ gameVars.tag["Knife.knives0"] = "old"
    /\ "Knife.knives0" \notin gameVars.reads
    /\ "Knife.knifeCount" \in gameVars.reads

\* --------------------------------------------------------------------- C17
\* C17: in Snake the heading is always one of the four unit axis vectors;
\* an update never negates it; it changes only to a perpendicular direction
\* whose button was just pressed; and a just-pressed direction opposite to
\* the heading, with no perpendicular one beside it, leaves it as it was.
C17_Units == { Point(0, -1), Point(0, 1), Point(-1, 0), Point(1, 0) }

C17_ButtonOf(d) ==
    CASE d = Point(0, -1) -> UP
      [] d = Point(0, 1) -> DOWN
      [] d = Point(-1, 0) -> LEFT
      [] d = Point(1, 0) -> RIGHT

C17_Opposite(d) == Point(-d.x, -d.y)

C17_TurnStep ==
    gameVars.kind = "Snake" /\ gameVars'.ticks = gameVars.ticks + 1 =>
      LET d == gameVars.dir
          e == gameVars'.dir
          perp == { u \in C17_Units : u.x * d.x + u.y * d.y = 0 }
      IN  /\ e \in C17_Units
          /\ e # C17_Opposite(d)
          /\ e # d => e \in perp /\ isJustPressed(buttons', C17_ButtonOf(e))
          /\ isJustPressed(buttons', C17_ButtonOf(C17_Opposite(d)))
               /\ (\A u \in perp : ~isJustPressed(buttons', C17_ButtonOf(u)))
             => e = d

C17_PerpendicularTurnsOnly ==
    /\ gameVars.dir \in C17_Units
    /\ [][C17_TurnStep]_vars

\* The snake heads right, LEFT alone was just pressed, the update has run
\* and the snake still heads right.
C17_Witness ==
    /\ gameVars.kind = "Snake"
    /\ gameVars.ticks > 0
    /\ gameVars.dir = Point(1, 0)
    /\ isJustPressed(buttons, LEFT)
    /\ ~isJustPressed(buttons, UP)
    /\ ~isJustPressed(buttons, DOWN)
    /\ "update" \in { calls[k][1] : k \in 1 .. Len(calls) }

\* --------------------------------------------------------------------- C18
\* C18: in Stack Builder, on a tick where SELECT is just pressed, if the
\* overlap of the current block (at its moved place) with the previous one
\* is zero or negative the session ends and the score is unchanged; if it
\* is greater than 0 the score increases by exactly 1, currentW and the
\* width of the new base are exactly the overlap, and the overlap is never
\* larger than the previous width.
C18_DropStep ==
    /\ gameVars.kind = "Stack"
    /\ gameVars'.ticks = gameVars.ticks + 1
    /\ isJustPressed(buttons', SELECT)
    => LET g == StackMove(gameVars)
           overlap == StackOverlap(g)
       IN  IF overlap <= 0
           THEN /\ gameVars'.over
                /\ score' = score
           ELSE /\ ~gameVars'.over
                /\ score' = score + 1
                /\ gameVars'.currentW = overlap
                /\ gameVars'.prevW = overlap
                /\ overlap <= gameVars.prevW

C18_DropNarrowsToOverlap == [][C18_DropStep]_vars

\* The second block has just been dropped on the first with part of it
\* hanging over: the score is 2 and the block is narrower than the base was.
C18_Witness ==
    /\ gameVars.kind = "Stack"
    /\ isJustPressed(buttons, SELECT)
    /\ score = 2
    /\ gameVars.stackHeight = 2
    /\ gameVars.currentW = gameVars.prevW
    /\ gameVars.currentW < Px(40)
    /\ gameVars.currentW % Px(1) # 0

\* A block has just been dropped beside the base: the session is over.
C18_Missed ==
    /\ gameVars.kind = "Stack"
    /\ isJustPressed(buttons, SELECT)
    /\ gameVars.over
    /\ score = 1

\* --------------------------------------------------------------------- C19
\* C19 (as the code has it): in Tetris a fully-set 10-bit row (value 1023)
\* is cleared in the very update that locks the piece, so no full row
\* outlasts a tick, and the grid and the score change in no other update;
\* the score increases by 10 for each cleared row, every row above a
\* cleared row shifts down by one and the top row becomes empty, for one
\* or several rows completed by the same lock.
C19_Full(grid) == { k \in 1 .. ROWS : grid[k] = 1023 }

C19_NotFull(row) == row # 1023

\* The rows that are not full, moved down past the full ones.
C19_Compact(grid) ==
    LET kept == SelectSeq(grid, C19_NotFull)
    IN  [ k \in 1 .. (ROWS - Len(kept)) |-> 0 ] \o kept

C19_Locked == Called(calls', "placePiece")

C19_ClearStep ==
    gameVars.kind = "Tetris" /\ gameVars'.ticks = gameVars.ticks + 1 =>
      /\ C19_Full(gameVars'.grid) = { }
      /\ IF C19_Locked
         THEN /\ gameVars'.grid = C19_Compact(gameVars'.placed)
              /\ score' = score + 10 * Cardinality(C19_Full(gameVars'.placed))
         ELSE /\ gameVars'.grid = gameVars.grid
              /\ score' = score

C19_ClearedWithinLockTick == [][C19_ClearStep]_vars

\* C19 as stated: the rows a lock completes are cleared on the tick that
\* follows it, so they are still in the grid, and not yet scored, when
\* the tick of the lock ends.
C19_DeferredStep ==
    /\ gameVars.kind = "Tetris"
    /\ gameVars'.ticks = gameVars.ticks + 1
    /\ C19_Locked
    /\ C19_Full(gameVars'.placed) # { }
    => /\ gameVars'.grid = gameVars'.placed
       /\ score' = score

C19_ClearedOnNextTick == [][C19_DeferredStep]_vars

\* An O piece has just been locked beside four flat I pieces: two rows were
\* completed by it, the score went from 0 to 20 and the field is empty.
C19_Witness ==
    /\ gameVars.kind = "Tetris"
    /\ Called(calls, "placePiece")
    /\ Cardinality(C19_Full(gameVars.placed)) = 2
    /\ score = 20
    /\ \A k \in 1 .. ROWS : gameVars.grid[k] = 0

\* One row was completed and the half of the O piece above it moved down.
C19_ShiftSeen ==
    /\ gameVars.kind = "Tetris"
    /\ Called(calls, "placePiece")
    /\ Cardinality(C19_Full(gameVars.placed)) = 1
    /\ score = 10
    /\ gameVars.placed[ROWS - 1] = 768
    /\ gameVars.grid[ROWS] = 768
    /\ gameVars.grid[ROWS - 1] = 0

\* --------------------------------------------------------------------- C20
\* C20: in Tetris the session ends exactly when a piece that must drop
\* cannot move down while curr.y < 0; then nothing is written to the grid
\* and the score is unchanged; a piece that cannot move down with
\* curr.y >= 0 is locked into the grid (its four cells are set) and does
\* not end the session.
C20_Cells(grid) ==
    Cardinality({ p \in (1 .. ROWS) \X (0 .. COLS - 1) : Bit(grid[p[1]], p[2]) })

C20_DropStep ==
    gameVars.kind = "Tetris" /\ gameVars'.ticks = gameVars.ticks + 1 =>
      LET c == TetrisSteer([ Ctx EXCEPT !.buttons = buttons', !.now = now' ])
          p == c.gameVars.curr
          b == getBlocks(p.type, p.rot)
          stuck == /\ DropDue(c)
                   /\ checkCollision(c.gameVars, p.x, p.y + 1, p.rot)
      IN  /\ gameVars'.over <=> stuck /\ p.y < 0
          /\ gameVars'.over =>
               /\ gameVars'.grid = gameVars.grid
               /\ score' = score
               /\ ~Called(calls', "placePiece")
          /\ stuck /\ p.y >= 0 =>
               /\ ~gameVars'.over
               /\ Called(calls', "placePiece")
               /\ \A i \in 1 .. 4 :
                    Bit(gameVars'.placed[p.y + b[i][2] + 1], p.x + b[i][1])
               /\ C20_Cells(gameVars'.placed) = C20_Cells(gameVars.grid) + 4
          /\ ~stuck => ~Called(calls', "placePiece")

C20_OverOnlyAboveField == [][C20_DropStep]_vars

\* A piece could not leave its spawn place: the session has just ended
\* with the piece above the field, the grid as the last lock left it.
C20_Witness ==
    /\ gameVars.kind = "Tetris"
    /\ gameVars.over
    /\ gameVars.curr.y < 0
    /\ Called(calls, "gameOver")
    /\ ~Called(calls, "placePiece")
    /\ gameVars.grid = gameVars.placed

\* A piece has just been locked with its origin on the top row.
C20_LockedAtTop ==
    /\ gameVars.kind = "Tetris"
    /\ ~gameVars.over
    /\ Called(calls, "placePiece")
    /\ gameVars.placed[1] # 0

\* --------------------------------------------------------------------- C21
\* C21: in Snake the body advances only in a tick where more than speedMs
\* ms have elapsed since the previous step, and by at most one cell per
\* tick; speedMs is 150 after init, decreases by 2 on each food eaten and
\* never goes below 50, so 50 <= speedMs <= 150 in every state.
C21_Abs(n) == IF n < 0 THEN -n ELSE n

C21_StepStep ==
    gameVars.kind = "Snake" /\ gameVars'.ticks = gameVars.ticks + 1 =>
      LET g == gameVars
          h == gameVars'
          ate == score' = score + 1
      IN  /\ h.body # g.body => now' - g.lastMove > g.speedMs
          /\ C21_Abs(h.body[1].x - g.body[1].x)
               + C21_Abs(h.body[1].y - g.body[1].y) <= 1
          /\ score' \in { score, score + 1 }
          /\ h.speedMs = IF ate /\ g.speedMs - 2 >= 50 THEN g.speedMs - 2
                         ELSE g.speedMs
          /\ 50 <= h.speedMs /\ h.speedMs <= 150

C21_TimedSteps ==
    /\ gameVars.kind = "Snake" => gameVars.speedMs = 150
    /\ [][C21_StepStep]_vars

\* A food has just been eaten with speedMs already at its floor.
C21_Witness ==
    /\ gameVars.kind = "Snake"
    /\ Called(calls, "score")
    /\ score > 50
    /\ gameVars.speedMs = 50

\* --------------------------------------------------------------------- C22
\* C22: in Snake the food resample loop can always end (the body holds at
\* most 128 of the 32 x 14 playfield cells, so a free cell exists) and
\* leaves the food on a playfield cell (0 <= x <= 31, 2 <= y <= 15) that no
\* body segment occupies; at the end of every update that does not end the
\* session the food is on no body cell.
C22_Playfield == { Point(px, py) : px \in 0 .. 31, py \in 2 .. 15 }

C22_BodyCells == { gameVars.body[i] : i \in 1 .. Len(gameVars.body) }

C22_FoodOffBody ==
    gameVars.kind = "Snake" /\ ~gameVars.over =>
      /\ Len(gameVars.body) <= MAX_LEN
      /\ C22_Playfield \ C22_BodyCells # { }
      /\ gameVars.food \in C22_Playfield
      /\ gameVars.food \notin C22_BodyCells

\* The food at its first place was eaten and a new one has just been put
\* down, away from that place.
C22_Witness ==
    /\ gameVars.kind = "Snake"
    /\ ~gameVars.guided
    /\ Called(calls, "score")
    /\ score = 1
    /\ Len(gameVars.body) = 4
    /\ gameVars.body[1] = Point(11, 10)
    /\ gameVars.food # Point(11, 10)

\* --------------------------------------------------------------------- C23
\* C23: in Snake the direction used for a grid step is never the exact
\* opposite of the direction used for the previous grid step, whatever
\* presses arrive in the ticks between the two steps: the head never steps
\* onto its neck segment.
C23_NeckStep ==
    /\ gameVars.kind = "Snake"
    /\ gameVars'.ticks = gameVars.ticks + 1
    /\ gameVars'.lastMove # gameVars.lastMove
    => /\ gameVars'.body[1] # gameVars.body[2]
       /\ gameVars'.dir # Point(gameVars.body[2].x - gameVars.body[1].x,
                                gameVars.body[2].y - gameVars.body[1].y)

C23_NeverOntoNeck == [][C23_NeckStep]_vars

\* ------------------------------------------------------------------- C24
\* C24: Knife Thrower. After any update 0 <= knifeCount < knivesToWin <= 15,
\* so no slot past the 20 of the stuck-knife array is written. A knife that
\* sticks and brings knifeCount to knivesToWin resets knifeCount to 0, raises
\* level by 1, raises knivesToWin by 2 up to the cap of 15 and adds 10 points
\* to the 1 of the knife; any other stick adds 1 to knifeCount and to the
\* score and leaves the level alone; an update without a stick changes none
\* of them. A knife in flight is not thrown again: SELECT pressed during the
\* flight gives no click and the knife goes on by its 4 pixels.
C24_Stuck == score' > score

C24_Step ==
    (gameVars.kind = "Knife" /\ gameVars'.ticks = gameVars.ticks + 1) =>
        /\ 0 <= gameVars'.knifeCount
        /\ gameVars'.knifeCount < gameVars'.knivesToWin
        /\ gameVars'.knivesToWin <= 15
        /\ gameVars'.knifeCount < KNIFE_SLOTS
        /\ (C24_Stuck /\ gameVars.knifeCount + 1 >= gameVars.knivesToWin) =>
              /\ gameVars'.knifeCount = 0
              /\ gameVars'.level = gameVars.level + 1
              /\ gameVars'.knivesToWin =
                    (IF gameVars.knivesToWin + 2 > 15
                     THEN 15 ELSE gameVars.knivesToWin + 2)
              /\ score' = score + 11
        /\ (C24_Stuck /\ gameVars.knifeCount + 1 < gameVars.knivesToWin) =>
              /\ gameVars'.knifeCount = gameVars.knifeCount + 1
              /\ gameVars'.level = gameVars.level
              /\ gameVars'.knivesToWin = gameVars.knivesToWin
              /\ score' = score + 1
        /\ ~C24_Stuck =>
              /\ gameVars'.knifeCount = gameVars.knifeCount
              /\ gameVars'.level = gameVars.level
              /\ gameVars'.knivesToWin = gameVars.knivesToWin
              /\ score' = score
        /\ gameVars.knifeFlying =>
              /\ ~CalledWith(calls', "playTone", SfxClickTone[1])
              /\ \/ gameVars'.knifeY = gameVars.knifeY - 4
                 \/ /\ gameVars.knifeY - 4 <= KNIFE_HIT_Y
                    /\ gameVars'.knifeY = KNIFE_START_Y
                    /\ ~gameVars'.knifeFlying

C24_Counters == [][C24_Step]_vars

\* The knife that completes level 6 has stuck: knivesToWin, 15 already,
\* stays at the cap, and the 11 points are on the score.
C24_Witness ==
    /\ gameVars.kind = "Knife"
    /\ gameVars.level = 7
    /\ gameVars.knifeCount = 0
    /\ gameVars.knivesToWin = 15
    /\ Called(calls, "score")

\* SELECT newly pressed while the knife was in flight: no click, and the
\* knife has arrived.
C24_WitnessFlight ==
    /\ gameVars.kind = "Knife"
    /\ gameVars.ticks > 0
    /\ isJustPressed(buttons, SELECT)
    /\ ~CalledWith(calls, "playTone", SfxClickTone[1])
    /\ ~gameVars.knifeFlying

\* ------------------------------------------------------------------- C25
\* The way round the target from a to b, the shorter of the two.
C25_OnCircle(a, b) ==
    IF KnifeAbs(a - b) <= KNIFE_TURN - KnifeAbs(a - b)
    THEN KnifeAbs(a - b)
    ELSE KNIFE_TURN - KnifeAbs(a - b)

\* C25: Knife Thrower. No two knives stuck in the same level are less than
\* 0.2 rad apart on the target circle, the distance being taken round the
\* circle, across the seam between 6.28 and 0 too.
C25_ApartOnCircle ==
    (gameVars.kind = "Knife") =>
        \A i, j \in 0 .. gameVars.knifeCount - 1 :
           (i # j) =>
              C25_OnCircle(gameVars.knives[i], gameVars.knives[j])
                  >= KNIFE_REACH

\* What the update does keep: the stuck knives of a level are 0.2 rad apart
\* by the plain difference of their angles.
C25_ApartOnLine ==
    (gameVars.kind = "Knife") =>
        \A i, j \in 0 .. gameVars.knifeCount - 1 :
           (i # j) =>
              KnifeAbs(gameVars.knives[i] - gameVars.knives[j]) >= KNIFE_REACH

\* ------------------------------------------------------------------- C26
\* The target rotation and all the stored stuck-knife angles are within
\* [0, 6.28].
C26_InRange ==
    (gameVars.kind = "Knife") =>
        /\ gameVars.angle \in 0 .. KNIFE_TURN
        /\ \A i \in 0 .. KNIFE_SLOTS - 1 : gameVars.knives[i] \in 0 .. KNIFE_TURN

\* An update that sticks a knife stores the rotation it has just reached
\* plus 1.57, less one turn where that is past 6.28, and no other slot
\* changes.
C26_Hit ==
    (gameVars.kind = "Knife" /\ score' > score) =>
        /\ \/ gameVars'.knives[gameVars.knifeCount]
                 = gameVars'.angle + KNIFE_QUARTER
           \/ gameVars'.knives[gameVars.knifeCount]
                 = gameVars'.angle + KNIFE_QUARTER - KNIFE_TURN
        /\ \A i \in 0 .. KNIFE_SLOTS - 1 :
              (i # gameVars.knifeCount) =>
                 gameVars'.knives[i] = gameVars.knives[i]

\* C26: Knife Thrower. The hit angle is the rotation of the target plus 1.57
\* brought back into one turn, and after any update, at every level played,
\* the rotation and every stored stuck-knife angle lie in [0, 6.28].
C26_Angles == []C26_InRange /\ [][C26_Hit]_vars

\* At level 100 or more a knife has just stuck past the seam: rotation above
\* 4.71, stored angle the rotation plus 1.57 less one turn.
C26_Witness ==
    /\ gameVars.kind = "Knife"
    /\ gameVars.level >= 100
    /\ gameVars.knifeCount > 0
    /\ Called(calls, "score")
    /\ gameVars.angle + KNIFE_QUARTER > KNIFE_TURN
    /\ gameVars.knives[gameVars.knifeCount - 1]
          = gameVars.angle + KNIFE_QUARTER - KNIFE_TURN

\* ------------------------------------------------------------------- C27
\* A row is injected in the pass.
C27_Fired == gameVars.kind = "Brick" /\ Called(calls', "Brick.spawnRow")

\* The grid at the moment of the injection: the grid before the pass, less
\* the brick the ball has knocked out in the pass, if any.
C27_AtInjection ==
    IF score' > score
    THEN [ gameVars.bricks EXCEPT
             ![BrickCut(gameVars'.ballY - BRICK_HUD, BRICK_H)] =
                 @ \ { BrickCut(gameVars'.ballX, BRICK_W) } ]
    ELSE gameVars.bricks

\* C27: Brick Breaker. Each time a row injection fires, the injection ends
\* the session if and only if the bottom row (row 7) holds at least one
\* brick at that moment: the rows below the new one are the rows 0..6 of
\* that moment, so a brick leaves the grid by the bottom only as the session
\* ends, and an injection with an empty bottom row does not end it.
C27_Step ==
    C27_Fired =>
        /\ (C27_AtInjection[BRICK_ROWS - 1] # { }) <=>
              CalledWith(calls', "gameOver", "Brick.row")
        /\ (C27_AtInjection[BRICK_ROWS - 1] # { }) => gameVars'.over
        /\ (C27_AtInjection[BRICK_ROWS - 1] = { }
              /\ ~CalledWith(calls', "gameOver", "Brick.ball")) =>
              ~gameVars'.over
        /\ \A y \in 1 .. BRICK_ROWS - 1 :
              gameVars'.bricks[y] = C27_AtInjection[y - 1]

C27_BottomRowEnds == [][C27_Step]_vars

\* An injection has found a brick in the bottom row, and the session is over.
C27_Witness ==
    /\ gameVars.kind = "Brick"
    /\ Called(calls, "Brick.spawnRow")
    /\ CalledWith(calls, "gameOver", "Brick.row")
    /\ gameVars.over

\* An injection has found the bottom row empty with bricks in the row above
\* it, and the session goes on.
C27_WitnessEmpty ==
    /\ gameVars.kind = "Brick"
    /\ Called(calls, "Brick.spawnRow")
    /\ ~gameVars.over
    /\ gameVars.bricks[BRICK_ROWS - 1] # { }
    /\ gameVars.ticks > BrickLedPasses

\* ------------------------------------------------------------------- C28
\* Pipe i is wholly off the left edge once moved: x - 1.5 < -PIPE_W.
C28_OffLeft(i) == gameVars.pipes[i].x - 3 < -20

\* Pipe i goes behind the bird in the update: it is left of BIRD_X after it
\* and was not marked passed, or has just been reset.
C28_Passes(i) ==
    /\ gameVars'.pipes[i].x < 40
    /\ C28_OffLeft(i) \/ ~gameVars.pipes[i].passed

\* C28: Flappy. In an update a pipe is reset exactly when its move takes it
\* wholly off the left edge (x < -PIPE_W): it is then at x = 128, not passed,
\* with a gap top within [10, SCREEN_HEIGHT - 10 - PIPE_GAP] (random(10, 30)
\* gives 10..29); otherwise it moves 1.5 to the left and keeps its gap and,
\* once passed, its flag. Each pipe does so whatever the other does, and the
\* score grows by 1 for each pipe that goes behind the bird, once between
\* two resets of that pipe.
C28_Step ==
    (gameVars.kind = "Flappy" /\ gameVars'.ticks = gameVars.ticks + 1) =>
        /\ \A i \in 1 .. 2 :
              IF C28_OffLeft(i)
              THEN /\ gameVars'.pipes[i].x = 256
                   /\ gameVars'.pipes[i].gapY \in 10 .. 29
                   /\ ~gameVars'.pipes[i].passed
              ELSE /\ gameVars'.pipes[i].x = gameVars.pipes[i].x - 3
                   /\ gameVars'.pipes[i].gapY = gameVars.pipes[i].gapY
                   /\ gameVars'.pipes[i].passed =
                         (gameVars.pipes[i].passed \/ C28_Passes(i))
        /\ score' = score + Cardinality({ i \in 1 .. 2 : C28_Passes(i) })

C28_PipesRecycle == [][C28_Step]_vars

\* The first pipe, reset once and given a new gap, has gone behind the bird
\* a second time: the third point of the session. The second pipe, passed
\* between the two, has been reset since and is on its way in.
C28_Witness ==
    /\ gameVars.kind = "Flappy"
    /\ score = 3
    /\ Called(calls, "score")
    /\ gameVars.pipes[1].passed
    /\ gameVars.pipes[1].gapY # 32
    /\ ~gameVars.pipes[2].passed
    /\ gameVars.pipes[2].gapY # 32

\* ------------------------------------------------------------------- C29
\* C29: Helicopter. Every column of the cave, initial or generated, has
\* roof >= 8, floor <= 63 and floor - roof >= 20, after any number of scroll
\* steps and for every sequence of random draws.
C29_CaveBounds ==
    (gameVars.kind = "Heli") =>
        \A i \in 0 .. HELI_COLS - 1 :
           /\ gameVars.roof[i] >= 8
           /\ gameVars.floor[i] <= 63
           /\ gameVars.floor[i] - gameVars.roof[i] >= 20

\* What the generation does keep: a column is within 2 of the limits, and
\* it is no narrower than the column before it by more than 2.
C29_CaveKept ==
    (gameVars.kind = "Heli") =>
        /\ \A i \in 0 .. HELI_COLS - 1 :
              gameVars.roof[i] >= 6 /\ gameVars.floor[i] <= 65
        /\ \A i \in 1 .. HELI_COLS - 1 :
              gameVars.floor[i] - gameVars.roof[i]
                 >= Min(20, gameVars.floor[i - 1] - gameVars.roof[i - 1]) - 2

\* ------------------------------------------------------------------- C30
\* C30: Tunnel Runner. Every row of the walls, initial or generated, has
\* 0 <= left <= right <= 128 and right - left >= 20, and the bytes stored for
\* the top row are the values computed for it (none is below 0 or above 255,
\* so none wraps), after any number of scroll steps and for every sequence
\* of random draws.
C30_WallBounds ==
    (gameVars.kind = "Tunnel") =>
        /\ \A i \in 0 .. TUNNEL_ROWS - 1 :
              /\ 0 <= gameVars.leftWall[i]
              /\ gameVars.leftWall[i] <= gameVars.rightWall[i]
              /\ gameVars.rightWall[i] <= TUNNEL_WIDTH
              /\ gameVars.rightWall[i] - gameVars.leftWall[i] >= 20
        /\ gameVars.leftWall[0] = gameVars.l
        /\ gameVars.rightWall[0] = gameVars.r

\* The part on the stored bytes alone: what is stored is what was computed.
C30_StoredAsComputed ==
    (gameVars.kind = "Tunnel") =>
        /\ gameVars.leftWall[0] = gameVars.l
        /\ gameVars.rightWall[0] = gameVars.r

\* What the generation does keep: the right wall is never past 130, and its
\* byte never wraps.
C30_RightKept ==
    (gameVars.kind = "Tunnel") =>
        /\ gameVars.r <= TUNNEL_WIDTH + 2
        /\ gameVars.rightWall[0] = gameVars.r

\* ------------------------------------------------------------------- C31
\* The buttons as the poll of the tick just made left them, before the
\* engine ran.
C31_Polled == InputUpdate(buttons, pins', C7_PollTime)

\* The poll of the tick just made found b newly pressed.
C31_NewPress(b) == b \in pins' /\ ~buttons[b].pressed

\* The statement as made: every input poll resets, for each of the 5
\* buttons, both the just-pressed edge flag (up again only for a button the
\* poll finds newly pressed) and the long-press-consumed flag.
C31_PollResetsBoth ==
    [][\A b \in Buttons :
          /\ C31_Polled[b].justPressed => C31_NewPress(b)
          /\ ~C31_Polled[b].longPressHandled]_vars

C31_PollStep ==
    \A b \in Buttons :
       /\ C31_Polled[b].justPressed <=> C31_NewPress(b)
       /\ C31_Polled[b].longPressHandled
             = (~C31_NewPress(b) /\ buttons[b].longPressHandled)
       /\ buttons'[b].justPressed = C31_Polled[b].justPressed
       /\ buttons'[b].longPressHandled
             = (C31_Polled[b].longPressHandled \/ (b = SELECT /\ C7_Raised))

\* C31 (amended): every input poll resets the just-pressed edge flag of each
\* of the 5 buttons and raises it again only for a button it finds newly
\* pressed; the long-press-consumed flag is reset only by the poll that
\* finds the button newly pressed, is kept by every other poll, pressed or
\* released, and is raised by nothing but the long press of SELECT.
C31_PollResetsEdgeOnly == [][C31_PollStep]_vars

\* Back in the menu after a pause, SELECT still held since it started the
\* game: the poll of this tick has kept its consumed flag up.
C31_Witness ==
    /\ currentState = STATE_MENU
    /\ Called(calls, "updateMenu")
    /\ buttons[SELECT].pressed
    /\ ~buttons[SELECT].justPressed
    /\ buttons[SELECT].longPressHandled

\* C32: the score is set to 0 by the pass that starts a game and never
\* decreases afterwards; it changes only in a Playing pass that calls the
\* active module's update, and neither the rest of updateGame (the game-over
\* transition) nor the draw touches it, so Menu passes, Paused passes and
\* the pause toggle leave it as it was.
C32_Start == Called(calls', "startGame")
C32_Step ==
    /\ C32_Start => score' = 0
    /\ ~C32_Start => score' >= score
    /\ (~C32_Start /\ score' # score)
          => (currentState = STATE_PLAYING /\ Called(calls', "update"))
    /\ \A o \in Outcomes :
          updateGame(Ctx, o).score
            = ModuleUpdate(Ctx, UpdateSwitch(selectedGame), o).score
    /\ draw(Ctx).score = score
C32_ScoreOnlyGrows == [][C32_Step]_vars
C32_Witness ==
    /\ currentState = STATE_MENU
    /\ score > 0
    /\ Called(calls, "gameOver")
    /\ Called(calls, "engine.draw")

\* C33: in Tetris, as long as the session has not ended, the cells of the
\* falling piece lie in columns 0..9 and in rows below 20 and those of them
\* that are in the field are empty in the grid, the rotation of the piece is
\* in 0..3 and its type in 0..6, and every grid row is a 10-bit value other
\* than the full row 1023.
C33_Cells ==
    LET p == gameVars.curr
        b == getBlocks(p.type, p.rot)
    IN  { << p.x + b[i][1], p.y + b[i][2] >> : i \in 1 .. 4 }
C33_PieceFits ==
    gameVars.kind = "Tetris" /\ ~gameVars.over =>
      /\ gameVars.curr.rot \in 0 .. 3
      /\ gameVars.curr.type \in 0 .. 6
      /\ \A cell \in C33_Cells :
            /\ cell[1] \in 0 .. COLS - 1
            /\ cell[2] < ROWS
            /\ cell[2] >= 0 => ~Bit(gameVars.grid[cell[2] + 1], cell[1])
      /\ Cardinality(C33_Cells) = 4
      /\ \A k \in 1 .. ROWS : gameVars.grid[k] \in 0 .. 1022
\* An O piece lies on a tower of O pieces, its origin on the top row: the
\* pass just made found no drop due and left it there, over cells that are
\* set in the grid.
C33_Witness ==
    /\ gameVars.kind = "Tetris"
    /\ ~gameVars.over
    /\ gameVars.free > 0
    /\ gameVars.lastDrop < now
    /\ gameVars.curr.y = 0
    /\ \A cell \in C33_Cells : cell[2] + 1 < ROWS
    /\ checkCollision(gameVars, gameVars.curr.x, gameVars.curr.y + 1,
                      gameVars.curr.rot)

\* C34: in a Tetris session where no button is pressed and the passes go
\* on, the falling piece eventually locks or the session ends, after any
\* number of cleared lines.
C34_IdleLock ==
    /\ gameVars.kind = "Tetris"
    /\ gameVars.free > 0
    /\ gameVars.over \/ Called(calls, "placePiece")
C34_FallsWhileDue == gameVars.dropSpeed >= 0 => <>C34_IdleLock

\* Once dropSpeed is negative and DOWN is released no drop is due, however
\* long the session goes on (up to 2,000,000 s are looked at): the passes
\* past the last one followed here leave the piece where it is as well.
C34_NoDropEverDue ==
    /\ gameVars.kind = "Tetris"
    /\ gameVars.dropSpeed < 0
    /\ ~isPressed(buttons, DOWN)
    => \A k \in 0 .. 2000 : ~DropDue([ Ctx EXCEPT !.now = @ + k * 1000000 ])

\* After 52 cleared lines dropSpeed is -20: the passes go by, no drop is
\* ever due and the piece stays where it was spawned.
C34_Hangs ==
    /\ gameVars.kind = "Tetris"
    /\ gameVars.free = TetrisIdleTicks
    /\ gameVars.dropSpeed < 0
    /\ gameVars.curr.y = -2
    /\ now - gameVars.lastDrop = TetrisIdleTicks * TetrisDt
    /\ ~gameVars.over

\* C35: the pass in which SELECT starts a game from the menu and the pass in
\* which SELECT resumes a paused game do not call the module's update, and
\* the poll of the pass that follows clears the edge of that press, so no
\* module update ever finds it just pressed.
C35_Started == Called(calls, "startGame")
C35_Resumed == Called(calls, "updatePause") /\ currentState = STATE_PLAYING
C35_Step ==
    /\ Called(calls', "startGame") => ~Called(calls', "update")
    /\ Called(calls', "updatePause") => ~Called(calls', "update")
    /\ (C35_Started \/ C35_Resumed) => ~buttons'[SELECT].justPressed
C35_EdgeNotSeen == [][C35_Step]_vars
\* The first update of a session, SELECT still held from the press that
\* started it and no longer just pressed.
C35_Witness ==
    /\ currentState = STATE_PLAYING
    /\ sessions = 1
    /\ presses = 1
    /\ SELECT \in pins
    /\ buttons[SELECT].pressed
    /\ ~buttons[SELECT].justPressed
    /\ Called(calls, "update")
    /\ mem[UpdateSwitch(selectedGame)].frames = 1
\* A game was resumed by a second press of SELECT and then updated.
C35_AfterResume ==
    /\ currentState = STATE_PLAYING
    /\ sessions = 1
    /\ presses = 2
    /\ buttons[SELECT].pressTime > LONG_PRESS_MS
    /\ ~buttons[SELECT].justPressed
    /\ ~buttons[SELECT].longPressHandled
    /\ Called(calls, "update")
    /\ mem[UpdateSwitch(selectedGame)].frames = 1

\* C36: a press of SELECT that begins while playing and is held until it
\* pauses the game is not delivered to the game as a just-pressed action:
\* in Stack Builder the press that pauses has dropped no block.
C36_PausedByPlayPress ==
    /\ gameVars.kind = "Stack"
    /\ currentState = STATE_PAUSED
    /\ buttons[SELECT].pressTime > 0
C36_PauseNotDelivered ==
    C36_PausedByPlayPress => gameVars.dropPress # buttons[SELECT].pressTime

\* What the program does: every press that begins while playing and pauses
\* the game has dropped a block first, in the pass that found it.
C36_PauseDelivered ==
    C36_PausedByPlayPress =>
      /\ gameVars.dropPress = buttons[SELECT].pressTime
      /\ gameVars.stackHeight >= 1
C36_DroppedThenPaused ==
    /\ C36_PausedByPlayPress
    /\ gameVars.dropPress = buttons[SELECT].pressTime
    /\ score >= 1

\* C37: the time spent in Paused does not advance a game's timer: in Snake
\* a step is taken only when the time played since the last step, the
\* paused time left out, exceeds speedMs.
C37_Stepped ==
    gameVars.kind = "Snake" /\ gameVars'.lastMove # gameVars.lastMove
C37_PlayedStep ==
    C37_Stepped => gameVars.played + (now' - now) > gameVars.speedMs
C37_PausedTimeNotCounted == [][C37_PlayedStep]_vars

\* What the program does: a step is taken when the time on the clock since
\* the last step, paused or not, exceeds speedMs.
C37_ClockStep ==
    gameVars.kind = "Snake" /\ Called(calls', "update") =>
      (C37_Stepped <=> now' - gameVars.lastMove > gameVars.speedMs)
C37_ClockTimeCounted == [][C37_ClockStep]_vars
\* The snake has just stepped in the first update after a resume, 61 ms of
\* play after its last step.
C37_SteppedOnResume ==
    /\ gameVars.kind = "Snake"
    /\ currentState = STATE_PLAYING
    /\ gameVars.lastMove = now
    /\ gameVars.played = 0
    /\ buttons[SELECT].pressTime = now - SnakePauseDt
    /\ buttons[SELECT].pressTime > LONG_PRESS_MS
    /\ Len(gameVars.body) = 3
    /\ gameVars.body[1].x = 10 + 4

====
